---- MODULE Spec2Model ----
(***************************************************************************)
(* Verification model of the media-download bot.                           *)
(*                                                                         *)
(* The module holds one state machine per component, each with its own     *)
(* next-state relation over the shared variable tuple:                     *)
(*   SpecDR    the DownloadRequest entity (domain/entities)                *)
(*   SpecUC    DownloadMediaUseCase.execute (application/use_cases)        *)
(*   SpecRL    JsonRateLimiterService (infrastructure/external_services)   *)
(*   SpecRP    the JSON repositories under concurrent callers              *)
(*   SpecDL    the platform downloaders under concurrent requests          *)
(*   SpecRG    ManageUserUseCase.register_user under concurrent calls      *)
(*   SpecOR    delete_old_requests with its dates                          *)
(*   SpecCF    a repository's store file, damaged or not, and its readers  *)
(*   SpecUL    URL dispatch: inferred platform and the adapters' patterns  *)
(*   SpecRQ    JsonRateLimiterService with its other two queries           *)
(*   SpecSN    TelegramNotificationService: sends in flight                *)
(*   SpecTN    TelegramNotificationService: what one call returns          *)
(*   SpecBM    BotManager's background loops, with fair scheduling         *)
(*   SpecBR    BotManager start, stop and restart: the loops they leave    *)
(*   SpecCT    the Container and its late-bound notification service       *)
(*   SpecAD    AdminUseCase: user list pages and broadcast                 *)
(*   SpecTS    JsonTranslationService.get_text                             *)
(*   SpecCX    execute invocations of one user beside each other and a ban *)
(*   SpecRW    a repository's read-only queries beside a locked save       *)
(*   SpecRM    one call of JsonRateLimiterService on any stored document   *)
(*   SpecRB    concurrent calls of JsonRateLimiterService on its file      *)
(*   SpecRF    the same calls with read_text and write_text failing        *)
(*   SpecTA    add_translation beside get_text and reload_translations     *)
(*   SpecCL    cleanup_temp_files of the downloaders                       *)
(* Timestamps are whole seconds on a model clock; None is the value -1.    *)
(***************************************************************************)
EXTENDS Integers, Sequences, FiniteSets, TLC

None == -1

(***************************************************************************)
(* Bounds of the model                                                     *)
(***************************************************************************)
MaxClock == 3           \* last instant of the entity clock
MaxInvocations == 2     \* execute() invocations explored one after another
MaxTicks == 1           \* advances of the rate limiter's clock
MaxUsed == 5            \* downloads are counted while used < MaxUsed
MaxOther == 2           \* other actions are counted while used < MaxOther
TickSeconds == 100      \* the short advance of the rate limiter's clock
NumRequests == 2        \* download requests processed concurrently
NumRegistrations == 2   \* register_user calls for one user id
MaxSaves == 2           \* save calls made on the repository
NumReaders == 2         \* tasks making read-only queries
MaxExecutes == 6        \* execute invocations of the user in the window
NumDownloaders == 2     \* execute invocations that can overlap
NumUsers == 3           \* users the admin calls find in the store
MaxLimit == 2           \* page sizes asked of get_user_list
MaxPage == 3            \* pages asked of get_user_list
MaxAttempts == 2        \* initialize() calls that construct objects
MaxStarts == 2          \* start() calls that create the background tasks
MaxBroadcast == 2       \* most user ids in one broadcast_message
MaxCallers == 31       \* callers of the notification service at one time
MaxPath == 3            \* most segments in the path of a URL
MaxDay == 3             \* last day of the clock of delete_old_requests
NumTasks == 2           \* tasks calling the repositories concurrently

VARIABLES
    \* ---- DownloadRequest entity ----
    req,            \* the fields of one DownloadRequest
    drNow,          \* datetime.now() as seen by the entity
    drLast,         \* the entity operation that was called last
    \* ---- DownloadMediaUseCase.execute ----
    ucPc,           \* position of the running invocation
    ucInv,          \* number of the invocation, also the id of its request
    ucReq,          \* status of the in-memory request object ("none" before line 65)
    ucFlags,        \* what the running invocation has called so far
    ucOutcome,      \* "none", "returned" or "raised"
    ucStage,        \* where a raising invocation left execute
    ucUserMem,      \* download_count of the in-memory user object
    userStore,      \* the persisted user record
    reqStore,       \* download_request store: sequence of [id, status]
    anaStore,       \* analytics store: sequence of [inv, success]
    ucUsage,        \* successful increment_usage calls
    \* ---- JsonRateLimiterService ----
    rlData,         \* the decoded rate_limits.json document, per user
    rlNow,          \* datetime.now() as seen by the rate limiter
    rlTicks,        \* how often the limiter's clock has advanced
    rlLast,         \* the last is_rate_limited call and its result
    rlCalls,        \* per user: increment_usage("download") calls made since
                    \* the user had no stored counter, 0 once the 300 s
                    \* after the first of them are over
    rlFirst,        \* per user: the time of the first of those calls
    \* ---- JSON repositories under concurrent callers ----
    rpFile,         \* per repository: the decoded JSON document (a list)
    rpLock,         \* per repository: the task holding self._lock, or None
    rpTask,         \* per task: where it is in its call, the call, its data
    rpSerial,       \* per repository: the calls applied one at a time, in
                    \* the order in which they took the lock
    \* ---- platform downloaders under concurrent requests ----
    dlTask,         \* per request: where its download_media is, its
                    \* platform and shortcode, the file list it returned
    dlLoader,       \* InstagramDownloaderService._loader: NoLoader, or the
                    \* directory its dirname_pattern points into
    dlFiles,        \* the files under Settings.TEMP_DIR, each with the
                    \* request whose download wrote it
    \* ---- ManageUserUseCase.register_user under concurrent callers ----
    rgTask,         \* per call: where it is, the display name it carries,
                    \* how it ended
    rgStore,        \* the user store: sequence of [id, first_name]
    rgWelcomes,     \* welcome messages sent so far
    rgLastDone,     \* the display name of the call that returned last
    \* ---- JsonDownloadRequestRepository.delete_old_requests ----
    orData,         \* the stored document: sequence of [id, status, created_at]
    orNow,          \* datetime.now(), in days
    orLast,         \* the call made last: its name and, for
                    \* delete_old_requests, its days, the document it found
                    \* and the count it returned
    \* ---- the repositories' store file and its readers ----
    cfFile,         \* the store file: what its bytes are and, for a JSON
                    \* document, its rows
    cfLast,         \* the operation made last, what it found and its outcome
    \* ---- URL dispatch: DownloadRequest and CompositeDownloaderService ----
    ulUrl,          \* the URL followed, as its parts
    ulLast,         \* the operation made last on it and what it gave
    \* ---- TelegramNotificationService: sends in flight ----
    snWaiting,      \* callers waiting in "async with self._send_lock"
    snHeld,         \* callers inside it, their client call in flight
    snGroup,        \* send_media_group callers with their client call in
                    \* flight
    snLast,         \* the send operation that was called last
    \* ---- TelegramNotificationService: one call and what it returns ----
    tnLast,         \* the call made last: its arguments, the client calls it
                    \* made with their outcomes, and what came back
    \* ---- BotManager: the background maintenance loops ----
    bmRunning,      \* self._is_running
    bmStarted,      \* start() has created the two tasks
    bmPc,           \* per loop: where its task is
    bmSlept,        \* per loop: seconds slept since its last pass ended
    bmWakes,        \* per loop: sleeps that ended since stop() cleared the flag
    \* ---- BotManager: start, stop and restart called again ----
    brRunning,      \* self._is_running
    brStarts,       \* start() calls that created tasks so far
    brPc,           \* per start and loop: where the task created then is
    brRestart,      \* where a restart() call is: "idle" or "pause"
    \* ---- Container ----
    ct,             \* the container: _initialized, _services as object
                    \* identities, the notification_service attribute of the
                    \* registered use cases, and the constructions made
    ctLast,         \* the call made last, its argument or result, and the
                    \* container it found
    \* ---- AdminUseCase ----
    adStore,        \* the user store: user records in file order
    adLast,         \* the admin call made last, its arguments and its result
    \* ---- JsonTranslationService ----
    tsFiles,        \* the locale file of each supported language
    tsCache,        \* _translations: the documents loaded so far
    tsDefault,      \* Settings.DEFAULT_LANGUAGE of this process
    tsLast,         \* the get_text call made last, what it found loaded and
                    \* what it returned
    \* ---- execute and ban_user running concurrently for one user ----
    cxUser,         \* the user's record in the user store
    cxLimiter,      \* the rate limiter's document
    cxTask,         \* each execute invocation: where it is, its User object
    cxAdmin,        \* the ban call: where it is, its User object
    cxStarted,      \* execute invocations begun
    cxSucceeded,    \* execute invocations that returned their request
    cxBanned,       \* whether a ban call has persisted its ban
    \* ---- a repository's readers running beside a locked save ----
    rwFile,         \* the store file: a document, or empty while a
                    \* write_text has opened it and not yet written
    rwLock,         \* the task inside "async with self._lock", or None
    rwTask,         \* each task: where it is, the content it is writing
    rwSaves,        \* save calls begun
    rwSaved,        \* ids whose save has returned
    \* ---- JsonRateLimiterService: one call on a stored document ----
    rmData,         \* rate_limits.json of two users
    rmNow,          \* datetime.now() of the call
    rmLast,         \* the call made on the document, with its result
    \* ---- JsonRateLimiterService: concurrent calls on rate_limits.json ----
    rfFile,         \* the file: a document, or empty while write_text runs
    rfLock,         \* the task inside `async with self._lock`, or None
    rfTask,         \* each task's call, position and local data
    rfGhost,        \* calls and faults so far, the standing block, last call
    \* ---- JsonTranslationService: add_translation beside other calls ----
    taFile,         \* the locale file of one language
    taCache,        \* self._translations[language], or not loaded
    taTask,         \* each task's call, position and local values
    taGhost,        \* calls so far, keys whose add_translation returned True
    \* ---- DownloaderService.cleanup_temp_files ----
    clFs,           \* the files and directories at and below Settings.TEMP_DIR
    clLast          \* the last operation: its file_paths, what it found

drVars == <<req, drNow, drLast>>
ucVars == <<ucPc, ucInv, ucReq, ucFlags, ucOutcome, ucStage, ucUserMem,
            userStore, reqStore, anaStore, ucUsage>>
rlVars == <<rlData, rlNow, rlTicks, rlLast, rlCalls, rlFirst>>
rpVars == <<rpFile, rpLock, rpTask, rpSerial>>
dlVars == <<dlTask, dlLoader, dlFiles>>
rgVars == <<rgTask, rgStore, rgWelcomes, rgLastDone>>
orVars == <<orData, orNow, orLast>>
cfVars == <<cfFile, cfLast>>
ulVars == <<ulUrl, ulLast>>
snVars == <<snWaiting, snHeld, snGroup, snLast>>
tnVars == <<tnLast>>
bmVars == <<bmRunning, bmStarted, bmPc, bmSlept, bmWakes>>
brVars == <<brRunning, brStarts, brPc, brRestart>>
ctVars == <<ct, ctLast>>
adVars == <<adStore, adLast>>
tsVars == <<tsFiles, tsCache, tsDefault, tsLast>>
cxVars == <<cxUser, cxLimiter, cxTask, cxAdmin, cxStarted, cxSucceeded,
            cxBanned>>
rwVars == <<rwFile, rwLock, rwTask, rwSaves, rwSaved>>
rmVars == <<rmData, rmNow, rmLast>>
rfVars == <<rfFile, rfLock, rfTask, rfGhost>>
taVars == <<taFile, taCache, taTask, taGhost>>
clVars == <<clFs, clLast>>
vars == <<drVars, ucVars, rlVars, rpVars, dlVars, rgVars, orVars, cfVars,
          ulVars, snVars, tnVars, bmVars, brVars, ctVars, adVars, tsVars,
          cxVars, rwVars, rmVars, rfVars, taVars, clVars>>

\* what the actions of one component leave alone
notDR == <<ucVars, rlVars, rpVars, dlVars, rgVars, orVars, cfVars, ulVars,
           snVars, tnVars, bmVars, brVars, ctVars, adVars, tsVars, cxVars,
           rwVars, rmVars, rfVars, taVars, clVars>>
notUC == <<drVars, rlVars, rpVars, dlVars, rgVars, orVars, cfVars, ulVars,
           snVars, tnVars, bmVars, brVars, ctVars, adVars, tsVars, cxVars,
           rwVars, rmVars, rfVars, taVars, clVars>>
notRL == <<drVars, ucVars, rpVars, dlVars, rgVars, orVars, cfVars, ulVars,
           snVars, tnVars, bmVars, brVars, ctVars, adVars, tsVars, cxVars,
           rwVars, rmVars, rfVars, taVars, clVars>>
notRP == <<drVars, ucVars, rlVars, dlVars, rgVars, orVars, cfVars, ulVars,
           snVars, tnVars, bmVars, brVars, ctVars, adVars, tsVars, cxVars,
           rwVars, rmVars, rfVars, taVars, clVars>>
notDL == <<drVars, ucVars, rlVars, rpVars, rgVars, orVars, cfVars, ulVars,
           snVars, tnVars, bmVars, brVars, ctVars, adVars, tsVars, cxVars,
           rwVars, rmVars, rfVars, taVars, clVars>>
notRG == <<drVars, ucVars, rlVars, rpVars, dlVars, orVars, cfVars, ulVars,
           snVars, tnVars, bmVars, brVars, ctVars, adVars, tsVars, cxVars,
           rwVars, rmVars, rfVars, taVars, clVars>>
notOR == <<drVars, ucVars, rlVars, rpVars, dlVars, rgVars, cfVars, ulVars,
           snVars, tnVars, bmVars, brVars, ctVars, adVars, tsVars, cxVars,
           rwVars, rmVars, rfVars, taVars, clVars>>
notCF == <<drVars, ucVars, rlVars, rpVars, dlVars, rgVars, orVars, ulVars,
           snVars, tnVars, bmVars, brVars, ctVars, adVars, tsVars, cxVars,
           rwVars, rmVars, rfVars, taVars, clVars>>
notUL == <<drVars, ucVars, rlVars, rpVars, dlVars, rgVars, orVars, cfVars,
           snVars, tnVars, bmVars, brVars, ctVars, adVars, tsVars, cxVars,
           rwVars, rmVars, rfVars, taVars, clVars>>
notSN == <<drVars, ucVars, rlVars, rpVars, dlVars, rgVars, orVars, cfVars,
           ulVars, tnVars, bmVars, brVars, ctVars, adVars, tsVars, cxVars,
           rwVars, rmVars, rfVars, taVars, clVars>>
notTN == <<drVars, ucVars, rlVars, rpVars, dlVars, rgVars, orVars, cfVars,
           ulVars, snVars, bmVars, brVars, ctVars, adVars, tsVars, cxVars,
           rwVars, rmVars, rfVars, taVars, clVars>>
notBM == <<drVars, ucVars, rlVars, rpVars, dlVars, rgVars, orVars, cfVars,
           ulVars, snVars, tnVars, brVars, ctVars, adVars, tsVars, cxVars,
           rwVars, rmVars, rfVars, taVars, clVars>>
notBR == <<drVars, ucVars, rlVars, rpVars, dlVars, rgVars, orVars, cfVars,
           ulVars, snVars, tnVars, bmVars, ctVars, adVars, tsVars, cxVars,
           rwVars, rmVars, rfVars, taVars, clVars>>
notCT == <<drVars, ucVars, rlVars, rpVars, dlVars, rgVars, orVars, cfVars,
           ulVars, snVars, tnVars, bmVars, brVars, adVars, tsVars, cxVars,
           rwVars, rmVars, rfVars, taVars, clVars>>
notAD == <<drVars, ucVars, rlVars, rpVars, dlVars, rgVars, orVars, cfVars,
           ulVars, snVars, tnVars, bmVars, brVars, ctVars, tsVars, cxVars,
           rwVars, rmVars, rfVars, taVars, clVars>>
notTS == <<drVars, ucVars, rlVars, rpVars, dlVars, rgVars, orVars, cfVars,
           ulVars, snVars, tnVars, bmVars, brVars, ctVars, adVars, cxVars,
           rwVars, rmVars, rfVars, taVars, clVars>>
notCX == <<drVars, ucVars, rlVars, rpVars, dlVars, rgVars, orVars, cfVars,
           ulVars, snVars, tnVars, bmVars, brVars, ctVars, adVars, tsVars,
           rwVars, rmVars, rfVars, taVars, clVars>>
notRW == <<drVars, ucVars, rlVars, rpVars, dlVars, rgVars, orVars, cfVars,
           ulVars, snVars, tnVars, bmVars, brVars, ctVars, adVars, tsVars,
           cxVars, rmVars, rfVars, taVars, clVars>>
notRM == <<drVars, ucVars, rlVars, rpVars, dlVars, rgVars, orVars, cfVars,
           ulVars, snVars, tnVars, bmVars, brVars, ctVars, adVars, tsVars,
           cxVars, rwVars, rfVars, taVars, clVars>>
notRF == <<drVars, ucVars, rlVars, rpVars, dlVars, rgVars, orVars, cfVars,
           ulVars, snVars, tnVars, bmVars, brVars, ctVars, adVars, tsVars,
           cxVars, rwVars, rmVars, taVars, clVars>>
notTA == <<drVars, ucVars, rlVars, rpVars, dlVars, rgVars, orVars, cfVars,
           ulVars, snVars, tnVars, bmVars, brVars, ctVars, adVars, tsVars,
           cxVars, rwVars, rmVars, rfVars, clVars>>
notCL == <<drVars, ucVars, rlVars, rpVars, dlVars, rgVars, orVars, cfVars,
           ulVars, snVars, tnVars, bmVars, brVars, ctVars, adVars, tsVars,
           cxVars, rwVars, rmVars, rfVars, taVars>>

(***************************************************************************)
(* DownloadRequest (src/domain/entities/download_request.py)               *)
(***************************************************************************)
DefaultMaxRetries == 3

Statuses == {"pending", "processing", "completed", "failed", "cancelled"}
FileLists == {<<>>, <<"f1">>}
TotalSizes == {None, 10}
ErrorMessages == {"err"}
NoMessage == "None"

\* DownloadRequest() with the dataclass defaults
NewRequest ==
    [status |-> "pending", started_at |-> None, completed_at |-> None,
     error_message |-> NoMessage, retry_count |-> 0,
     max_retries |-> DefaultMaxRetries, media_files |-> <<>>,
     total_size |-> None, processing_time |-> None]

start_processing(r, now) ==
    [r EXCEPT !.status = "processing", !.started_at = now]

complete_successfully(r, now, media_files, total_size) ==
    [r EXCEPT !.status = "completed",
              !.completed_at = now,
              !.media_files = media_files,
              !.total_size = total_size,
              !.processing_time =
                  IF r.started_at # None THEN now - r.started_at ELSE @]

fail(r, now, error_message) ==
    [r EXCEPT !.status = "failed",
              !.completed_at = now,
              !.error_message = error_message,
              !.processing_time =
                  IF r.started_at # None THEN now - r.started_at ELSE @]

cancel(r, now) ==
    [r EXCEPT !.status = "cancelled",
              !.completed_at = now,
              !.processing_time =
                  IF r.started_at # None THEN now - r.started_at ELSE @]

can_retry_NoBound(r) == r.status = "failed"

can_retry(r) == r.retry_count < r.max_retries /\ r.status = "failed"

increment_retry(r) ==
    IF can_retry(r)
    THEN [r EXCEPT !.retry_count = @ + 1,
                   !.status = "pending",
                   !.error_message = NoMessage,
                   !.started_at = None,
                   !.completed_at = None]
    ELSE r

StartProcessing ==
    /\ req' = start_processing(req, drNow)
    /\ drLast' = "start_processing"
    /\ UNCHANGED <<drNow, notDR>>

CompleteSuccessfully ==
    /\ \E mf \in FileLists, ts \in TotalSizes :
           req' = complete_successfully(req, drNow, mf, ts)
    /\ drLast' = "complete_successfully"
    /\ UNCHANGED <<drNow, notDR>>

Fail ==
    /\ \E m \in ErrorMessages : req' = fail(req, drNow, m)
    /\ drLast' = "fail"
    /\ UNCHANGED <<drNow, notDR>>

Cancel ==
    /\ req' = cancel(req, drNow)
    /\ drLast' = "cancel"
    /\ UNCHANGED <<drNow, notDR>>

IncrementRetry ==
    /\ req' = increment_retry(req)
    /\ drLast' = "increment_retry"
    /\ UNCHANGED <<drNow, notDR>>

\* time passes between two calls on the entity
DrTick ==
    /\ drNow < MaxClock
    /\ drNow' = drNow + 1
    /\ drLast' = "tick"
    /\ UNCHANGED <<req, notDR>>

NextDR ==
    \/ StartProcessing
    \/ CompleteSuccessfully
    \/ Fail
    \/ Cancel
    \/ IncrementRetry
    \/ DrTick

(***************************************************************************)
(* DownloadMediaUseCase.execute                                            *)
(* (src/application/use_cases/download_media_use_case.py)                  *)
(*                                                                         *)
(* execute talks to its collaborators through injected ports.  Every call  *)
(* on a port either completes or raises; a call that raises has persisted  *)
(* nothing.  create/update on the request store are the store's upsert.    *)
(***************************************************************************)
NoFlags == [limited |-> FALSE, validated |-> FALSE, created |-> FALSE,
            downloaded |-> FALSE, userUpdated |-> FALSE,
            incremented |-> FALSE]

\* JsonDownloadRequestRepository.save: replace the record with the same id
\* in place, else append
Upsert(store, rec) ==
    IF \E i \in 1..Len(store) : store[i].id = rec.id
    THEN [i \in 1..Len(store) |->
              IF store[i].id = rec.id THEN rec ELSE store[i]]
    ELSE Append(store, rec)

StoredStatus(id) ==
    IF \E i \in 1..Len(reqStore) : reqStore[i].id = id
    THEN reqStore[CHOOSE i \in 1..Len(reqStore) : reqStore[i].id = id].status
    ELSE "absent"

RequestsOf(id) == Cardinality({i \in 1..Len(reqStore) : reqStore[i].id = id})
AnalyticsOf(id) == Cardinality({i \in 1..Len(anaStore) : anaStore[i].inv = id})

\* leave execute by an exception
UcRaise(stage) ==
    /\ ucPc' = "done"
    /\ ucOutcome' = "raised"
    /\ ucStage' = stage

\* an exception inside the try block enters the except clause (line 122)
UcCatch ==
    /\ ucPc' = "h_mark_failed"
    /\ UNCHANGED <<ucOutcome, ucStage>>

UcGoto(pc) ==
    /\ ucPc' = pc
    /\ UNCHANGED <<ucOutcome, ucStage>>

\* a caller invokes execute (line 38-40)
UcBegin ==
    /\ ucPc \in {"idle", "done"}
    /\ ucInv < MaxInvocations
    /\ ucInv' = ucInv + 1
    /\ ucPc' = "get_user"
    /\ ucReq' = "none"
    /\ ucFlags' = NoFlags
    /\ ucOutcome' = "none"
    /\ ucStage' = "none"
    /\ ucUserMem' = None
    /\ UNCHANGED <<userStore, reqStore, anaStore, ucUsage, notUC>>

\* lines 42-45
UcGetUser ==
    /\ ucPc = "get_user"
    /\ \/ /\ userStore.exists
          /\ ucUserMem' = userStore.download_count
          /\ UcGoto("check_rate")
       \/ /\ ~userStore.exists
          /\ UcRaise("user")
          /\ UNCHANGED ucUserMem
       \/ /\ UcRaise("user")          \* the repository read raises
          /\ UNCHANGED ucUserMem
    /\ UNCHANGED <<ucInv, ucReq, ucFlags, userStore, reqStore, anaStore,
                   ucUsage, notUC>>

\* a check that ignores the limiter's answer
UcCheckRate_Ignored ==
    /\ ucPc = "check_rate"
    /\ \/ /\ ucFlags' = [ucFlags EXCEPT !.limited = TRUE]
          /\ UcGoto("validate")
       \/ /\ UcGoto("validate")
          /\ UNCHANGED ucFlags
       \/ /\ UcRaise("rate")
          /\ UNCHANGED ucFlags
    /\ UNCHANGED <<ucInv, ucReq, ucUserMem, userStore, reqStore, anaStore,
                   ucUsage, notUC>>

\* line 48
UcCheckRate ==
    /\ ucPc = "check_rate"
    /\ \/ /\ ucFlags' = [ucFlags EXCEPT !.limited = TRUE]
          /\ UcGoto("limited")
       \/ /\ UcGoto("validate")
          /\ UNCHANGED ucFlags
       \/ /\ UcRaise("rate")
          /\ UNCHANGED ucFlags
    /\ UNCHANGED <<ucInv, ucReq, ucUserMem, userStore, reqStore, anaStore,
                   ucUsage, notUC>>

\* lines 49-54: reset time, translation, error message, raise ValueError;
\* whichever of the calls raises, execute is left by an exception
UcLimited ==
    /\ ucPc = "limited"
    /\ UcRaise("rate")
    /\ UNCHANGED <<ucInv, ucReq, ucFlags, ucUserMem, userStore, reqStore,
                   anaStore, ucUsage, notUC>>

\* line 57
UcValidate ==
    /\ ucPc = "validate"
    /\ ucFlags' = [ucFlags EXCEPT !.validated = TRUE]
    /\ \/ UcGoto("create")
       \/ UcGoto("invalid")
       \/ UcRaise("url")
    /\ UNCHANGED <<ucInv, ucReq, ucUserMem, userStore, reqStore, anaStore,
                   ucUsage, notUC>>

\* lines 58-62
UcInvalid ==
    /\ ucPc = "invalid"
    /\ UcRaise("url")
    /\ UNCHANGED <<ucInv, ucReq, ucFlags, ucUserMem, userStore, reqStore,
                   anaStore, ucUsage, notUC>>

\* lines 64-72: build the request (status pending) and persist it
UcCreate ==
    /\ ucPc = "create"
    /\ \/ /\ reqStore' = Upsert(reqStore, [id |-> ucInv, status |-> "pending"])
          /\ ucReq' = "pending"
          /\ ucFlags' = [ucFlags EXCEPT !.created = TRUE]
          /\ UcGoto("t_mark_processing")
       \/ /\ UcRaise("create")
          /\ UNCHANGED <<reqStore, ucReq, ucFlags>>
    /\ UNCHANGED <<ucInv, ucUserMem, userStore, anaStore, ucUsage, notUC>>

\* line 76
UcMarkProcessing ==
    /\ ucPc = "t_mark_processing"
    /\ \/ /\ ucReq' = "processing"
          /\ UcGoto("t_update_processing")
       \/ /\ UcCatch
          /\ UNCHANGED ucReq
    /\ UNCHANGED <<ucInv, ucFlags, ucUserMem, userStore, reqStore, anaStore,
                   ucUsage, notUC>>

\* line 77
UcUpdateProcessing ==
    /\ ucPc = "t_update_processing"
    /\ \/ /\ reqStore' = Upsert(reqStore, [id |-> ucInv, status |-> ucReq])
          /\ UcGoto("t_progress")
       \/ /\ UcCatch
          /\ UNCHANGED reqStore
    /\ UNCHANGED <<ucInv, ucReq, ucFlags, ucUserMem, userStore, anaStore,
                   ucUsage, notUC>>

\* lines 80-83
UcNotifyProgress ==
    /\ ucPc = "t_progress"
    /\ \/ UcGoto("t_download")
       \/ UcCatch
    /\ UNCHANGED <<ucInv, ucReq, ucFlags, ucUserMem, userStore, reqStore,
                   anaStore, ucUsage, notUC>>

\* lines 86-89: media items, no items (ValueError) or an exception
UcDownload ==
    /\ ucPc = "t_download"
    /\ ucFlags' = [ucFlags EXCEPT !.downloaded = TRUE]
    /\ \/ UcGoto("t_mark_completed")
       \/ UcCatch
    /\ UNCHANGED <<ucInv, ucReq, ucUserMem, userStore, reqStore, anaStore,
                   ucUsage, notUC>>

\* line 92
UcMarkCompleted ==
    /\ ucPc = "t_mark_completed"
    /\ \/ /\ ucReq' = "completed"
          /\ UcGoto("t_update_completed")
       \/ /\ UcCatch
          /\ UNCHANGED ucReq
    /\ UNCHANGED <<ucInv, ucFlags, ucUserMem, userStore, reqStore, anaStore,
                   ucUsage, notUC>>

\* line 93
UcUpdateCompleted ==
    /\ ucPc = "t_update_completed"
    /\ \/ /\ reqStore' = Upsert(reqStore, [id |-> ucInv, status |-> ucReq])
          /\ UcGoto("t_success")
       \/ /\ UcCatch
          /\ UNCHANGED reqStore
    /\ UNCHANGED <<ucInv, ucReq, ucFlags, ucUserMem, userStore, anaStore,
                   ucUsage, notUC>>

\* line 101
UcNotifySuccess ==
    /\ ucPc = "t_success"
    /\ \/ UcGoto("t_update_user")
       \/ UcCatch
    /\ UNCHANGED <<ucInv, ucReq, ucFlags, ucUserMem, userStore, reqStore,
                   anaStore, ucUsage, notUC>>

\* lines 104-105: user.increment_downloads() then persist the user
UcUpdateUser ==
    /\ ucPc = "t_update_user"
    /\ ucUserMem' = ucUserMem + 1
    /\ \/ /\ userStore' = [userStore EXCEPT !.download_count = ucUserMem + 1]
          /\ ucFlags' = [ucFlags EXCEPT !.userUpdated = TRUE]
          /\ UcGoto("t_increment_usage")
       \/ /\ UcCatch
          /\ UNCHANGED <<userStore, ucFlags>>
    /\ UNCHANGED <<ucInv, ucReq, reqStore, anaStore, ucUsage, notUC>>

\* line 108: True (counted), False (limiter failed, nothing counted) or an
\* exception
UcIncrementUsage ==
    /\ ucPc = "t_increment_usage"
    /\ \/ /\ ucUsage' = ucUsage + 1
          /\ ucFlags' = [ucFlags EXCEPT !.incremented = TRUE]
          /\ UcGoto("t_analytics")
       \/ /\ UcGoto("t_analytics")
          /\ UNCHANGED <<ucUsage, ucFlags>>
       \/ /\ UcCatch
          /\ UNCHANGED <<ucUsage, ucFlags>>
    /\ UNCHANGED <<ucInv, ucReq, ucUserMem, userStore, reqStore, anaStore,
                   notUC>>

\* a success path that returns without writing the analytics record
UcRecordSuccess_Skipped ==
    /\ ucPc = "t_analytics"
    /\ \/ /\ ucPc' = "done"
          /\ ucOutcome' = "returned"
          /\ UNCHANGED <<ucStage, anaStore>>
       \/ /\ UcCatch
          /\ UNCHANGED anaStore
    /\ UNCHANGED <<ucInv, ucReq, ucFlags, ucUserMem, userStore, reqStore,
                   ucUsage, notUC>>

\* lines 111-120 and 148: success analytics record, then return
UcRecordSuccess ==
    /\ ucPc = "t_analytics"
    /\ \/ /\ anaStore' = Append(anaStore, [inv |-> ucInv, success |-> TRUE])
          /\ ucPc' = "done"
          /\ ucOutcome' = "returned"
          /\ UNCHANGED ucStage
       \/ /\ UcCatch
          /\ UNCHANGED anaStore
    /\ UNCHANGED <<ucInv, ucReq, ucFlags, ucUserMem, userStore, reqStore,
                   ucUsage, notUC>>

\* line 124
UcMarkFailed ==
    /\ ucPc = "h_mark_failed"
    /\ \/ /\ ucReq' = "failed"
          /\ UcGoto("h_update_failed")
       \/ /\ UcRaise("handler_abort")
          /\ UNCHANGED ucReq
    /\ UNCHANGED <<ucInv, ucFlags, ucUserMem, userStore, reqStore, anaStore,
                   ucUsage, notUC>>

\* a handler that goes on without persisting the failed status
UcUpdateFailed_NotPersisted ==
    /\ ucPc = "h_update_failed"
    /\ \/ /\ UcGoto("h_error")
          /\ UNCHANGED reqStore
       \/ /\ UcRaise("handler_abort")
          /\ UNCHANGED reqStore
    /\ UNCHANGED <<ucInv, ucReq, ucFlags, ucUserMem, userStore, anaStore,
                   ucUsage, notUC>>

\* line 125
UcUpdateFailed ==
    /\ ucPc = "h_update_failed"
    /\ \/ /\ reqStore' = Upsert(reqStore, [id |-> ucInv, status |-> ucReq])
          /\ UcGoto("h_error")
       \/ /\ UcRaise("handler_abort")
          /\ UNCHANGED reqStore
    /\ UNCHANGED <<ucInv, ucReq, ucFlags, ucUserMem, userStore, anaStore,
                   ucUsage, notUC>>

\* lines 128-131
UcNotifyError ==
    /\ ucPc = "h_error"
    /\ \/ UcGoto("h_analytics")
       \/ UcRaise("handler_abort")
    /\ UNCHANGED <<ucInv, ucReq, ucFlags, ucUserMem, userStore, reqStore,
                   anaStore, ucUsage, notUC>>

\* lines 134-146: failure analytics record, then re-raise
UcRecordFailure ==
    /\ ucPc = "h_analytics"
    /\ \/ /\ anaStore' = Append(anaStore, [inv |-> ucInv, success |-> FALSE])
          /\ UcRaise("handler_done")
       \/ /\ UcRaise("handler_abort")
          /\ UNCHANGED anaStore
    /\ UNCHANGED <<ucInv, ucReq, ucFlags, ucUserMem, userStore, reqStore,
                   ucUsage, notUC>>

NextUC ==
    \/ UcBegin
    \/ UcGetUser
    \/ UcCheckRate
    \/ UcLimited
    \/ UcValidate
    \/ UcInvalid
    \/ UcCreate
    \/ UcMarkProcessing
    \/ UcUpdateProcessing
    \/ UcNotifyProgress
    \/ UcDownload
    \/ UcMarkCompleted
    \/ UcUpdateCompleted
    \/ UcNotifySuccess
    \/ UcUpdateUser
    \/ UcIncrementUsage
    \/ UcRecordSuccess
    \/ UcMarkFailed
    \/ UcUpdateFailed
    \/ UcNotifyError
    \/ UcRecordFailure

(***************************************************************************)
(* JsonRateLimiterService                                                  *)
(* (src/infrastructure/external_services/json_rate_limiter_service.py)     *)
(*                                                                         *)
(* rlData[u] is the entry data["user_<u>"]: exists says whether the key is *)
(* in the document, counters[a] is "action_<a>", custom_key says whether   *)
(* the key "custom_limits" is there, custom[a] is its entry for a, and     *)
(* blocked_until is None, Permanent or the expiry time.  isoformat and     *)
(* fromisoformat keep a naive datetime as it is, so times are stored as    *)
(* the clock value.                                                        *)
(***************************************************************************)
DOWNLOAD_RATE_LIMIT == 5
DOWNLOAD_RATE_PERIOD == 300
RATE_LIMIT_REQUESTS == 10
RATE_LIMIT_PERIOD == 60
FallbackRequests == 10
FallbackPeriod == 60
SecondsPerHour == 3600
Permanent == -2

RlUsers == {1}
RlActions == {"download", "message"}
BlockDurations == {None, 1}            \* duration_hours, None = permanent
CustomLimits == {[requests |-> 2, period_seconds |-> 200]}

NoCounter == [present |-> FALSE, used |-> 0, reset_time |-> None]
NoCustom == [present |-> FALSE, requests |-> 0, period_seconds |-> 0]
NoEntry == [exists |-> FALSE,
            counters |-> [a \in RlActions |-> NoCounter],
            custom_key |-> FALSE,
            custom |-> [a \in RlActions |-> NoCustom],
            blocked_until |-> None]

\* self.default_limits, with the 10/60 fallback of .get(action, {...})
default_limits(action) ==
    IF action = "download"
    THEN [requests |-> DOWNLOAD_RATE_LIMIT,
          period_seconds |-> DOWNLOAD_RATE_PERIOD]
    ELSE IF action = "message"
    THEN [requests |-> RATE_LIMIT_REQUESTS,
          period_seconds |-> RATE_LIMIT_PERIOD]
    ELSE [requests |-> FallbackRequests, period_seconds |-> FallbackPeriod]

\* "Get limit configuration": the custom limit if there is one
limit_config(user_data, action) ==
    IF user_data.custom[action].present
    THEN [requests |-> user_data.custom[action].requests,
          period_seconds |-> user_data.custom[action].period_seconds]
    ELSE default_limits(action)

is_user_blocked_Inclusive(data, user, now) ==
    LET blocked_until == data[user].blocked_until IN
    IF blocked_until = None THEN FALSE
    ELSE IF blocked_until = Permanent THEN TRUE
    ELSE now <= blocked_until

is_user_blocked(data, user, now) ==
    LET blocked_until == data[user].blocked_until IN
    IF blocked_until = None THEN FALSE
    ELSE IF blocked_until = Permanent THEN TRUE
    ELSE now < blocked_until

counter_limited_Strict(data, user, action, now) ==
    LET user_data == data[user]
        action_data == user_data.counters[action]
        cfg == limit_config(user_data, action) IN
    IF ~action_data.present THEN FALSE
    ELSE IF now >= action_data.reset_time THEN FALSE
    ELSE action_data.used > cfg.requests

\* the counter check of is_rate_limited, made when the user is not blocked
counter_limited(data, user, action, now) ==
    LET user_data == data[user]
        action_data == user_data.counters[action]
        cfg == limit_config(user_data, action) IN
    IF ~action_data.present THEN FALSE
    ELSE IF now >= action_data.reset_time THEN FALSE
    ELSE action_data.used >= cfg.requests

is_rate_limited_NoBlockCheck(data, user, action, now) ==
    counter_limited(data, user, action, now)

is_rate_limited(data, user, action, now) ==
    IF is_user_blocked(data, user, now) THEN TRUE
    ELSE counter_limited(data, user, action, now)

get_rate_limit_info_NoReset(data, user, action, now) ==
    LET user_data == data[user]
        action_data == user_data.counters[action]
        cfg == limit_config(user_data, action)
        used_requests == IF action_data.present THEN action_data.used ELSE 0
        remaining == IF cfg.requests - used_requests > 0
                     THEN cfg.requests - used_requests ELSE 0
    IN [remaining |-> remaining, total_limit |-> cfg.requests,
        used |-> used_requests, period_seconds |-> cfg.period_seconds]

\* the dictionary returned, without its reset_time
get_rate_limit_info(data, user, action, now) ==
    LET user_data == data[user]
        action_data == user_data.counters[action]
        cfg == limit_config(user_data, action)
        reset_time == IF action_data.present THEN action_data.reset_time
                      ELSE now
        stored == IF action_data.present THEN action_data.used ELSE 0
        used_requests == IF now >= reset_time THEN 0 ELSE stored
        remaining == IF cfg.requests - used_requests > 0
                     THEN cfg.requests - used_requests ELSE 0
    IN [remaining |-> remaining, total_limit |-> cfg.requests,
        used |-> used_requests, period_seconds |-> cfg.period_seconds]

increment_usage(data, user, action, now) ==
    LET user_data == data[user]
        cfg == limit_config(user_data, action)
        fresh == [present |-> TRUE, used |-> 0,
                  reset_time |-> now + cfg.period_seconds]
        c0 == IF user_data.counters[action].present
              THEN user_data.counters[action] ELSE fresh
        c1 == IF now >= c0.reset_time THEN fresh ELSE c0
    IN [data EXCEPT ![user].exists = TRUE,
                    ![user].counters[action] =
                        [c1 EXCEPT !.used = @ + 1]]

reset_user_limits_DropBlock(data, user) ==
    IF data[user].exists
    THEN [data EXCEPT ![user].counters = [a \in RlActions |-> NoCounter],
                      ![user].custom_key = TRUE,
                      ![user].blocked_until = None]
    ELSE data

reset_user_limits(data, user) ==
    IF data[user].exists
    THEN [data EXCEPT ![user].counters = [a \in RlActions |-> NoCounter],
                      ![user].custom_key = TRUE]
    ELSE data

set_custom_limit(data, user, action, limit, period_seconds) ==
    [data EXCEPT ![user].exists = TRUE,
                 ![user].custom_key = TRUE,
                 ![user].custom[action] =
                     [present |-> TRUE, requests |-> limit,
                      period_seconds |-> period_seconds]]

block_user(data, user, duration_hours, now) ==
    [data EXCEPT ![user].exists = TRUE,
                 ![user].blocked_until =
                     IF duration_hours = None THEN Permanent
                     ELSE now + duration_hours * SecondsPerHour]

unblock_user(data, user) ==
    [data EXCEPT ![user].blocked_until = None]

\* one user's entry after a cleanup pass that deletes every counter
cleaned_entry_AllCounters(user_data, now) ==
    LET blocked == IF user_data.blocked_until \notin {None, Permanent}
                      /\ now >= user_data.blocked_until
                   THEN None ELSE user_data.blocked_until
        no_custom == \A a \in RlActions : ~user_data.custom[a].present
        empty == /\ blocked = None
                 /\ (~user_data.custom_key \/ no_custom)
    IN IF ~user_data.exists \/ empty THEN NoEntry
       ELSE [user_data EXCEPT !.counters = [a \in RlActions |-> NoCounter],
                              !.blocked_until = blocked]

\* one user's entry after a cleanup pass
cleaned_entry(user_data, now) ==
    LET counters == [a \in RlActions |->
                        IF user_data.counters[a].present
                           /\ now >= user_data.counters[a].reset_time
                        THEN NoCounter ELSE user_data.counters[a]]
        blocked == IF user_data.blocked_until \notin {None, Permanent}
                      /\ now >= user_data.blocked_until
                   THEN None ELSE user_data.blocked_until
        no_counter == \A a \in RlActions : ~counters[a].present
        no_custom == \A a \in RlActions : ~user_data.custom[a].present
        empty == /\ no_counter
                 /\ blocked = None
                 /\ (~user_data.custom_key \/ no_custom)
    IN IF ~user_data.exists \/ empty THEN NoEntry
       ELSE [user_data EXCEPT !.counters = counters,
                              !.blocked_until = blocked]

cleanup_expired_limits(data, now) ==
    [u \in DOMAIN data |-> cleaned_entry(data[u], now)]

\* rlLast: the last query or block_user call with its result or its hours,
\* NoQuery once the data or the clock has changed since
NoQuery == [op |-> "none", user |-> 0, action |-> "none", result |-> FALSE]

RlOp(op, user, action, result) ==
    [op |-> op, user |-> user, action |-> action, result |-> result]

\* rlCalls and rlFirst follow the stored download counter: they start with
\* the call that creates it and end when it is deleted or its first 300 s
\* are over
RlTrack(data) ==
    /\ rlCalls' = [u \in RlUsers |->
                      IF data[u].counters["download"].present
                      THEN rlCalls[u] ELSE 0]
    /\ rlFirst' = [u \in RlUsers |->
                      IF data[u].counters["download"].present
                         /\ rlCalls[u] > 0
                      THEN rlFirst[u] ELSE 0]

RlIsRateLimited ==
    \E u \in RlUsers, a \in RlActions :
        /\ rlLast' = RlOp("is_rate_limited", u, a,
                          is_rate_limited(rlData, u, a, rlNow))
        /\ UNCHANGED <<rlData, rlNow, rlTicks, rlCalls, rlFirst, notRL>>

RlGetRateLimitInfo ==
    \E u \in RlUsers, a \in RlActions :
        /\ rlLast' = RlOp("get_rate_limit_info", u, a,
                          get_rate_limit_info(rlData, u, a, rlNow))
        /\ UNCHANGED <<rlData, rlNow, rlTicks, rlCalls, rlFirst, notRL>>

RlIsUserBlocked ==
    \E u \in RlUsers :
        /\ rlLast' = RlOp("is_user_blocked", u, "none",
                          is_user_blocked(rlData, u, rlNow))
        /\ UNCHANGED <<rlData, rlNow, rlTicks, rlCalls, rlFirst, notRL>>

RlIncrementUsage ==
    \E u \in RlUsers, a \in RlActions :
        /\ rlData[u].counters[a].used <
               (IF a = "download" THEN MaxUsed ELSE MaxOther)
        /\ rlData' = increment_usage(rlData, u, a, rlNow)
        /\ rlLast' = NoQuery
        /\ IF a # "download"
           THEN UNCHANGED <<rlCalls, rlFirst>>
           ELSE IF ~rlData[u].counters[a].present
           THEN /\ rlCalls' = [rlCalls EXCEPT ![u] = 1]
                /\ rlFirst' = [rlFirst EXCEPT ![u] = rlNow]
           ELSE IF rlCalls[u] > 0 /\ rlNow < rlFirst[u] + DOWNLOAD_RATE_PERIOD
           THEN /\ rlCalls' = [rlCalls EXCEPT ![u] = @ + 1]
                /\ UNCHANGED rlFirst
           ELSE /\ rlCalls' = [rlCalls EXCEPT ![u] = 0]
                /\ rlFirst' = [rlFirst EXCEPT ![u] = 0]
        /\ UNCHANGED <<rlNow, rlTicks, notRL>>

RlResetUserLimits ==
    \E u \in RlUsers :
        /\ rlData' = reset_user_limits(rlData, u)
        /\ rlLast' = NoQuery
        /\ RlTrack(rlData')
        /\ UNCHANGED <<rlNow, rlTicks, notRL>>

RlSetCustomLimit ==
    \E u \in RlUsers, a \in RlActions, c \in CustomLimits :
        /\ rlData' = set_custom_limit(rlData, u, a, c.requests,
                                      c.period_seconds)
        /\ rlLast' = NoQuery
        /\ UNCHANGED <<rlNow, rlTicks, rlCalls, rlFirst, notRL>>

RlBlockUser ==
    \E u \in RlUsers, h \in BlockDurations :
        /\ rlData' = block_user(rlData, u, h, rlNow)
        /\ rlLast' = RlOp("block_user", u, "none", h)
        /\ UNCHANGED <<rlNow, rlTicks, rlCalls, rlFirst, notRL>>

RlUnblockUser ==
    \E u \in RlUsers :
        /\ rlData' = unblock_user(rlData, u)
        /\ rlLast' = NoQuery
        /\ UNCHANGED <<rlNow, rlTicks, rlCalls, rlFirst, notRL>>

RlCleanupExpiredLimits ==
    /\ rlData' = cleanup_expired_limits(rlData, rlNow)
    /\ rlLast' = NoQuery
    /\ RlTrack(rlData')
    /\ UNCHANGED <<rlNow, rlTicks, notRL>>

\* time passes between two calls on the limiter
RlTick ==
    /\ rlTicks < MaxTicks
    /\ \E d \in {TickSeconds, SecondsPerHour} : rlNow' = rlNow + d
    /\ rlTicks' = rlTicks + 1
    /\ rlLast' = NoQuery
    /\ UNCHANGED <<rlData, rlCalls, rlFirst, notRL>>

NextRL ==
    \/ RlIsRateLimited
    \/ RlIncrementUsage
    \/ RlResetUserLimits
    \/ RlSetCustomLimit
    \/ RlBlockUser
    \/ RlUnblockUser
    \/ RlCleanupExpiredLimits
    \/ RlTick

\* the same operations with the two other queries in place of
\* is_rate_limited
NextRQ ==
    \/ RlGetRateLimitInfo
    \/ RlIsUserBlocked
    \/ RlIncrementUsage
    \/ RlResetUserLimits
    \/ RlSetCustomLimit
    \/ RlBlockUser
    \/ RlUnblockUser
    \/ RlCleanupExpiredLimits
    \/ RlTick


(***************************************************************************)
(* JsonUserRepository and JsonDownloadRequestRepository under concurrent   *)
(* callers (src/infrastructure/repositories/json_user_repository.py,       *)
(* json_download_request_repository.py)                                    *)
(*                                                                         *)
(* Each mutating method is "async with self._lock: data = await            *)
(* self._read_data(); <change data>; await self._write_data(data)".  A     *)
(* task is suspended at each await, so the steps of different tasks        *)
(* interleave there.  A request record keeps its id, its status and        *)
(* whether created_at lies before the cutoff of delete_old_requests        *)
(* ("old"); a user record keeps its id and its download_count.             *)
(***************************************************************************)
Tasks == 1..NumTasks
Repos == {"users", "requests"}
UserIds == {1, 2}
RequestIds == {"a", "b"}

UserCalls ==
    {[repo |-> "users", op |-> "save",
      rec |-> [id |-> i, download_count |-> c]] : i \in UserIds, c \in {0, 1}}
    \cup {[repo |-> "users", op |-> "delete", id |-> i] : i \in UserIds}

RequestCalls ==
    {[repo |-> "requests", op |-> "save",
      rec |-> [id |-> i, status |-> "completed", old |-> o]] :
          i \in RequestIds, o \in BOOLEAN}
    \cup {[repo |-> "requests", op |-> "update_status", id |-> i,
           status |-> "processing"] : i \in RequestIds}
    \cup {[repo |-> "requests", op |-> "delete_old_requests"]}

NoCall == [repo |-> "none", op |-> "none"]

HasId(data, id) == \E i \in 1..Len(data) : data[i].id = id

\* JsonUserRepository.delete: the list without the user
delete(data, user_id) ==
    SelectSeq(data, LAMBDA user : user.id # user_id)

\* JsonDownloadRequestRepository.update_status: the first record with the id
update_status(data, request_id, status) ==
    IF HasId(data, request_id)
    THEN LET k == CHOOSE i \in 1..Len(data) :
                     /\ data[i].id = request_id
                     /\ \A j \in 1..(i - 1) : data[j].id # request_id
         IN [data EXCEPT ![k].status = status]
    ELSE data

\* JsonDownloadRequestRepository.delete_old_requests: keep what is recent or
\* still pending or processing
delete_old_requests(data) ==
    SelectSeq(data, LAMBDA r : ~r.old \/ r.status \in {"pending", "processing"})

\* the list a call makes of the list it has read
Changed(call, data) ==
    IF call.op = "save" THEN Upsert(data, call.rec)
    ELSE IF call.op = "delete" THEN delete(data, call.id)
    ELSE IF call.op = "update_status"
    THEN update_status(data, call.id, call.status)
    ELSE delete_old_requests(data)

\* whether the call reaches its self._write_data
Writes(call, data) ==
    IF call.op = "save" THEN TRUE
    ELSE IF call.op = "delete" THEN Len(delete(data, call.id)) < Len(data)
    ELSE IF call.op = "update_status" THEN HasId(data, call.id)
    ELSE Len(delete_old_requests(data)) < Len(data)

InCall(t) == rpTask[t].pc \in {"acquire", "read", "write"}

\* a task calls a mutating method and arrives at "async with self._lock"
RpCall(t) ==
    /\ rpTask[t].pc = "idle"
    /\ \E call \in UserCalls \cup RequestCalls :
           rpTask' = [u \in Tasks |->
               IF u = t
               THEN [pc |-> "acquire", call |-> call, data |-> <<>>,
                     overlapped |-> \E v \in Tasks : InCall(v)]
               ELSE IF InCall(u)
               THEN [rpTask[u] EXCEPT !.overlapped = TRUE]
               ELSE rpTask[u]]
    /\ UNCHANGED <<rpFile, rpLock, rpSerial, notRP>>

RpAcquire_Unlocked(t) ==
    /\ rpTask[t].pc = "acquire"
    /\ rpLock' = [rpLock EXCEPT ![rpTask[t].call.repo] = t]
    /\ rpSerial' = [rpSerial EXCEPT ![rpTask[t].call.repo] =
                       Changed(rpTask[t].call, @)]
    /\ rpTask' = [rpTask EXCEPT ![t].pc = "read"]
    /\ UNCHANGED <<rpFile, notRP>>

\* asyncio.Lock.acquire: the task goes on once nobody holds the lock
RpAcquire(t) ==
    /\ rpTask[t].pc = "acquire"
    /\ rpLock[rpTask[t].call.repo] = None
    /\ rpLock' = [rpLock EXCEPT ![rpTask[t].call.repo] = t]
    /\ rpSerial' = [rpSerial EXCEPT ![rpTask[t].call.repo] =
                       Changed(rpTask[t].call, @)]
    /\ rpTask' = [rpTask EXCEPT ![t].pc = "read"]
    /\ UNCHANGED <<rpFile, notRP>>

\* data = await self._read_data()
RpRead(t) ==
    /\ rpTask[t].pc = "read"
    /\ rpTask' = [rpTask EXCEPT ![t].pc = "write",
                                ![t].data = rpFile[rpTask[t].call.repo]]
    /\ UNCHANGED <<rpFile, rpLock, rpSerial, notRP>>

\* the change of data, await self._write_data(data) where the method gets to
\* it, and the end of "async with", which releases the lock
RpWrite(t) ==
    /\ rpTask[t].pc = "write"
    /\ LET call == rpTask[t].call
           data == rpTask[t].data IN
       /\ rpFile' = IF Writes(call, data)
                    THEN [rpFile EXCEPT ![call.repo] = Changed(call, data)]
                    ELSE rpFile
       /\ rpLock' = [rpLock EXCEPT ![call.repo] =
                        IF @ = t THEN None ELSE @]
    /\ rpTask' = [rpTask EXCEPT ![t].pc = "done"]
    /\ UNCHANGED <<rpSerial, notRP>>

NextRP ==
    \E t \in Tasks :
        \/ RpCall(t)
        \/ RpAcquire(t)
        \/ RpRead(t)
        \/ RpWrite(t)


(***************************************************************************)
(* InstagramDownloaderService and TikTokDownloaderService under concurrent *)
(* requests (src/infrastructure/external_services/                         *)
(* instagram_downloader_service.py, tiktok_downloader_service.py)          *)
(*                                                                         *)
(* The container builds one instance of each adapter and the bot handles   *)
(* updates concurrently, so several download_media calls run on the same   *)
(* instance and interleave at their awaits.  Request i has the id i.  A    *)
(* directory is <<platform, id>> for TEMP_DIR/<platform>_<id>, and         *)
(* TempRoot for TEMP_DIR itself; a file is known by the directory it is    *)
(* in, the target (shortcode or video id) in its path and, for the         *)
(* claims, the request whose download wrote it.                            *)
(***************************************************************************)
RequestNos == 1..NumRequests
Platforms == {"instagram", "tiktok"}
Shortcodes == {"s1", "s2"}
TempRoot == <<"temp", 0>>
NoLoader == <<"none", 0>>        \* self._loader is None

\* Settings.TEMP_DIR / f"<platform>_{request.id}"
temp_dir(platform, id) == <<platform, id>>

NoDownload == [pc |-> "idle", platform |-> "none", shortcode |-> "none",
               returned |-> {}, outcome |-> "none"]

\* a request reaches its adapter through CompositeDownloaderService
DlCall(i) ==
    /\ dlTask[i].pc = "idle"
    /\ \E p \in Platforms, sc \in Shortcodes :
           dlTask' = [dlTask EXCEPT ![i] =
               [NoDownload EXCEPT !.pc = IF p = "instagram"
                                         THEN "get_loader" ELSE "tt_download",
                                  !.platform = p, !.shortcode = sc]]
    /\ UNCHANGED <<dlLoader, dlFiles, notDL>>

\* loader = await self._get_loader(): the first caller builds the loader and
\* is suspended in _load_session; a later caller gets the loader at once and
\* goes on to set loader.dirname_pattern to its own directory
IgGetLoader(i) ==
    /\ dlTask[i].pc = "get_loader"
    /\ IF dlLoader = NoLoader
       THEN /\ dlLoader' = TempRoot
            /\ dlTask' = [dlTask EXCEPT ![i].pc = "load_session"]
       ELSE /\ dlLoader' = temp_dir("instagram", i)
            /\ dlTask' = [dlTask EXCEPT ![i].pc = "from_shortcode"]
    /\ UNCHANGED <<dlFiles, notDL>>

\* _load_session is over: temp_dir.mkdir and loader.dirname_pattern = ...
IgLoadSession(i) ==
    /\ dlTask[i].pc = "load_session"
    /\ dlLoader' = temp_dir("instagram", i)
    /\ dlTask' = [dlTask EXCEPT ![i].pc = "from_shortcode"]
    /\ UNCHANGED <<dlFiles, notDL>>

\* await run_in_executor(Post.from_shortcode): the post, or an exception
IgFromShortcode(i) ==
    /\ dlTask[i].pc = "from_shortcode"
    /\ \E ok \in BOOLEAN :
           dlTask' = [dlTask EXCEPT
               ![i].pc = IF ok THEN "download_post" ELSE "done",
               ![i].outcome = IF ok THEN "none" ELSE "raised"]
    /\ UNCHANGED <<dlLoader, dlFiles, notDL>>

\* await run_in_executor(loader.download_post, post, target=shortcode): the
\* file goes where the loader's dirname_pattern points when the download runs
IgDownloadPost(i) ==
    /\ dlTask[i].pc = "download_post"
    /\ dlFiles' = dlFiles \cup
           {[dir |-> dlLoader, target |-> dlTask[i].shortcode, owner |-> i]}
    /\ dlTask' = [dlTask EXCEPT ![i].pc = "scan"]
    /\ UNCHANGED <<dlLoader, notDL>>

\* the files found under temp_dir / shortcode; DownloadError if there is none
IgScan(i) ==
    /\ dlTask[i].pc = "scan"
    /\ LET found == {f \in dlFiles :
                        /\ f.dir = temp_dir("instagram", i)
                        /\ f.target = dlTask[i].shortcode} IN
       dlTask' = [dlTask EXCEPT
           ![i].pc = "done",
           ![i].returned = IF found = {} THEN {} ELSE found,
           ![i].outcome = IF found = {} THEN "raised" ELSE "returned"]
    /\ UNCHANGED <<dlLoader, dlFiles, notDL>>

\* TikTok: its own copy of the options with outtmpl in its own directory,
\* the download and the glob of temp_dir, all inside one executor call
TtDownload(i) ==
    /\ dlTask[i].pc = "tt_download"
    /\ \E ok \in BOOLEAN :
           IF ok
           THEN LET file == [dir |-> temp_dir("tiktok", i),
                             target |-> dlTask[i].shortcode, owner |-> i]
                    files == dlFiles \cup {file} IN
                /\ dlFiles' = files
                /\ dlTask' = [dlTask EXCEPT
                       ![i].pc = "done",
                       ![i].outcome = "returned",
                       ![i].returned =
                           {f \in files : f.dir = temp_dir("tiktok", i)}]
           ELSE /\ dlTask' = [dlTask EXCEPT ![i].pc = "done",
                                            ![i].outcome = "raised"]
                /\ UNCHANGED dlFiles
    /\ UNCHANGED <<dlLoader, notDL>>

NextDL ==
    \E i \in RequestNos :
        \/ DlCall(i)
        \/ IgGetLoader(i)
        \/ IgLoadSession(i)
        \/ IgFromShortcode(i)
        \/ IgDownloadPost(i)
        \/ IgScan(i)
        \/ TtDownload(i)


(***************************************************************************)
(* ManageUserUseCase.register_user                                         *)
(* (src/application/use_cases/manage_user_use_case.py)                     *)
(*                                                                         *)
(* The calls are all for the user id RegUserId and differ in the display   *)
(* name they carry.  A call is suspended at each await, so the calls of    *)
(* concurrently handled updates interleave there.  create and update are   *)
(* the repository's save (replace the record with the id, else append),    *)
(* which the repository runs under its lock; like every collaborator's     *)
(* call they may also raise.                                               *)
(***************************************************************************)
Registrations == 1..NumRegistrations
RegUserId == 1
DisplayNames == {"a", "b"}

NoRegistration == [pc |-> "idle", first_name |-> "none", outcome |-> "none"]

RgRecord(t) == [id |-> RegUserId, first_name |-> rgTask[t].first_name]

RgEnd(t, outcome) ==
    rgTask' = [rgTask EXCEPT ![t].pc = "done", ![t].outcome = outcome]

\* register_user is called
RgCall(t) ==
    /\ rgTask[t].pc = "idle"
    /\ \E n \in DisplayNames :
           rgTask' = [rgTask EXCEPT ![t] = [pc |-> "get_by_id",
                                            first_name |-> n,
                                            outcome |-> "none"]]
    /\ UNCHANGED <<rgStore, rgWelcomes, rgLastDone, notRG>>

\* line 33: existing_user = await self.user_repository.get_by_id(user_id)
RgGetById(t) ==
    /\ rgTask[t].pc = "get_by_id"
    /\ \/ rgTask' = [rgTask EXCEPT ![t].pc =
                        IF HasId(rgStore, RegUserId) THEN "update"
                        ELSE "create"]
       \/ RgEnd(t, "raised")
    /\ UNCHANGED <<rgStore, rgWelcomes, rgLastDone, notRG>>

\* lines 36-40: the display fields, update_activity, update, return
RgUpdate(t) ==
    /\ rgTask[t].pc = "update"
    /\ \/ /\ rgStore' = Upsert(rgStore, RgRecord(t))
          /\ rgLastDone' = rgTask[t].first_name
          /\ RgEnd(t, "returned")
       \/ /\ RgEnd(t, "raised")
          /\ UNCHANGED <<rgStore, rgLastDone>>
    /\ UNCHANGED <<rgWelcomes, notRG>>

\* lines 43-51: User(...) and create
RgCreate(t) ==
    /\ rgTask[t].pc = "create"
    /\ \/ /\ rgStore' = Upsert(rgStore, RgRecord(t))
          /\ rgTask' = [rgTask EXCEPT ![t].pc = "welcome"]
       \/ /\ RgEnd(t, "raised")
          /\ UNCHANGED rgStore
    /\ UNCHANGED <<rgWelcomes, rgLastDone, notRG>>

\* lines 54-59: the translation, send_message, return
RgWelcome(t) ==
    /\ rgTask[t].pc = "welcome"
    /\ \/ /\ rgWelcomes' = rgWelcomes + 1
          /\ rgLastDone' = rgTask[t].first_name
          /\ RgEnd(t, "returned")
       \/ /\ RgEnd(t, "raised")
          /\ UNCHANGED <<rgWelcomes, rgLastDone>>
    /\ UNCHANGED <<rgStore, notRG>>

NextRG ==
    \E t \in Registrations :
        \/ RgCall(t)
        \/ RgGetById(t)
        \/ RgUpdate(t)
        \/ RgCreate(t)
        \/ RgWelcome(t)


(***************************************************************************)
(* JsonDownloadRequestRepository.delete_old_requests with its dates        *)
(* (src/infrastructure/repositories/json_download_request_repository.py)   *)
(*                                                                         *)
(* Time is counted in days.  A record keeps its id, its status and its     *)
(* created_at, which is None when the stored dictionary has none.          *)
(***************************************************************************)
DayCounts == {1, 2}                    \* the days argument

\* lines 232-236: created_at, or now for a record without one, against the
\* cutoff; the record is old when it is not "created_at >= cutoff_date"
IsOld_Inclusive(r, now, days) ==
    LET created_at == IF r.created_at = None THEN now ELSE r.created_at
        cutoff_date == now - days IN
    created_at <= cutoff_date

IsOld(r, now, days) ==
    LET created_at == IF r.created_at = None THEN now ELSE r.created_at
        cutoff_date == now - days IN
    ~(created_at >= cutoff_date)

Aged(data, now, days) ==
    [k \in 1..Len(data) |->
        [id |-> data[k].id, status |-> data[k].status,
         created_at |-> data[k].created_at,
         old |-> IsOld(data[k], now, days)]]

Unaged(data) ==
    [k \in 1..Len(data) |->
        [id |-> data[k].id, status |-> data[k].status,
         created_at |-> data[k].created_at]]

\* filtered_data of delete_old_requests(days) called at the time now
filtered_data(data, now, days) ==
    Unaged(delete_old_requests(Aged(data, now, days)))

OrCall(op, days, before, count) ==
    [op |-> op, days |-> days, before |-> before, count |-> count]

\* save(request): a request of any status, created now or stored without
\* created_at
OrSave ==
    /\ \E i \in RequestIds, st \in Statuses, c \in {orNow, None} :
           orData' = Upsert(orData, [id |-> i, status |-> st, created_at |-> c])
    /\ orLast' = OrCall("save", 0, <<>>, 0)
    /\ UNCHANGED <<orNow, notOR>>

\* delete_old_requests(days): the document is written when something was
\* deleted, and the count is returned
OrDeleteOldRequests ==
    /\ \E days \in DayCounts :
           LET kept == filtered_data(orData, orNow, days)
               deleted_count == Len(orData) - Len(kept) IN
           /\ orData' = IF deleted_count > 0 THEN kept ELSE orData
           /\ orLast' = OrCall("delete_old_requests", days, orData,
                               deleted_count)
    /\ UNCHANGED <<orNow, notOR>>

\* a day passes
OrTick ==
    /\ orNow < MaxDay
    /\ orNow' = orNow + 1
    /\ orLast' = OrCall("tick", 0, <<>>, 0)
    /\ UNCHANGED <<orData, notOR>>

NextOR ==
    \/ OrSave
    \/ OrDeleteOldRequests
    \/ OrTick


(***************************************************************************)
(* The store file of a JSON repository, _read_data and _write_data         *)
(* (src/infrastructure/repositories/json_user_repository.py; the request   *)
(* and analytics repositories repeat the same lines)                       *)
(*                                                                         *)
(* The bytes of the file are a JSON document, text that is not JSON, or    *)
(* bytes that are not UTF-8 (ensure_ascii=False writes multi-byte          *)
(* characters, which a truncated write cuts in two).                       *)
(***************************************************************************)
FileKinds == {"document", "not_json", "not_utf8"}
Document(rows) == [kind |-> "document", rows |-> rows]

\* read_text(encoding="utf-8"): UnicodeDecodeError for bytes that are not
\* UTF-8; json.loads: JSONDecodeError for text that is not JSON
read_text_and_loads(file) ==
    CASE file.kind = "not_utf8" -> "UnicodeDecodeError"
      [] file.kind = "not_json" -> "JSONDecodeError"
      [] OTHER -> "loaded"

\* _read_data: the rows; on JSONDecodeError the file is reset to [] and []
\* returned; every other exception becomes RepositoryError
read_data(file) ==
    LET loaded == read_text_and_loads(file) IN
    CASE loaded = "loaded" ->
             [raised |-> FALSE, data |-> file.rows, file |-> file]
      [] loaded = "JSONDecodeError" ->
             [raised |-> FALSE, data |-> <<>>, file |-> Document(<<>>)]
      [] OTHER ->
             [raised |-> TRUE, data |-> <<>>, file |-> file]

CfCall(op, found, raised, data) ==
    [op |-> op, found |-> found, raised |-> raised, data |-> data]

\* the file is damaged from outside the program
CfDamage ==
    /\ \E k \in FileKinds \ {"document"} :
           cfFile' = [kind |-> k, rows |-> <<>>]
    /\ cfLast' = CfCall("damage", cfFile.kind, FALSE, <<>>)
    /\ UNCHANGED notCF

\* get_all(): the rows read, or RepositoryError
CfGetAll ==
    LET r == read_data(cfFile) IN
    /\ cfFile' = r.file
    /\ cfLast' = CfCall("get_all", cfFile.kind, r.raised, r.data)
    /\ UNCHANGED notCF

\* save(row): read, replace or append, write
CfSave ==
    /\ \E i \in RequestIds, st \in Statuses :
           LET r == read_data(cfFile)
               row == [id |-> i, status |-> st] IN
           /\ cfFile' = IF r.raised THEN r.file
                        ELSE Document(Upsert(r.data, row))
           /\ cfLast' = CfCall("save", cfFile.kind, r.raised,
                               IF r.raised THEN <<>> ELSE <<row>>)
    /\ UNCHANGED notCF

\* delete(id): read, drop the row, write when it was there
CfDelete ==
    /\ \E i \in RequestIds :
           LET r == read_data(cfFile) IN
           /\ cfFile' = IF r.raised \/ ~HasId(r.data, i) THEN r.file
                        ELSE Document(delete(r.data, i))
           /\ cfLast' = CfCall("delete", cfFile.kind, r.raised, <<>>)
    /\ UNCHANGED notCF

NextCF ==
    \/ CfDamage
    \/ CfGetAll
    \/ CfSave
    \/ CfDelete


(***************************************************************************)
(* URL dispatch: DownloadRequest.__post_init__ and the can_handle patterns *)
(* (src/domain/entities/download_request.py,                               *)
(*  src/infrastructure/external_services/instagram_downloader_service.py,  *)
(*  tiktok_downloader_service.py, composite_downloader_service.py)         *)
(*                                                                         *)
(* A URL is its scheme, subdomain, host and the segments of its path.  The *)
(* substring tests look for the host anywhere in the parts; the patterns   *)
(* are matched from the start of the URL, as re.match does, and accept any *)
(* tail.                                                                   *)
(***************************************************************************)
Schemes == {"https://", "ftp://"}
Subdomains == {"", "www.", "vm.", "m."}
Hosts == {"instagram.com", "instagr.am", "tiktok.com", "example.com"}
WordSegments == {"p", "reel", "tv", "stories", "t", "v", "video", "abc", "123"}
DigitSegments == {"123"}               \* segments that start with \d
AtSegments == {"@abc"}                 \* "@" and then [\w.-]+
Segments == WordSegments \cup AtSegments
Urls ==
    [scheme : Schemes, sub : Subdomains, host : Hosts,
     path : UNION {[1..n -> Segments] : n \in 0..MaxPath}]
NoUrl == [scheme |-> "none", sub |-> "", host |-> "none", path |-> <<>>]

Parts(url) == <<url.scheme, url.sub, url.host>> \o url.path

\* needle in url, for a needle of one or two adjacent parts
Contains(url, needle) ==
    \E k \in 1..(Len(Parts(url)) - Len(needle) + 1) :
        \A j \in 1..Len(needle) : Parts(url)[k + j - 1] = needle[j]

\* __post_init__, lines 48-53
inferred_platform(url) ==
    IF Contains(url, <<"instagram.com">>) \/ Contains(url, <<"instagr.am">>)
    THEN "instagram"
    ELSE IF Contains(url, <<"tiktok.com">>)
            \/ Contains(url, <<"vm.", "tiktok.com">>)
         THEN "tiktok"
         ELSE "None"

\* https?://(?:www\.)?<host> at the start of the URL
StartsAt(url, subs, host) ==
    /\ url.scheme = "https://"
    /\ url.sub \in subs
    /\ url.host = host

\* the path starts with the given literal segments
Under(url, literal) ==
    /\ Len(url.path) >= Len(literal)
    /\ \A k \in 1..Len(literal) : url.path[k] = literal[k]

\* segment k of the path exists and is in the class
SegIn(url, k, class) == Len(url.path) >= k /\ url.path[k] \in class

instagram_can_handle(url) ==
    \/ /\ StartsAt(url, {"", "www."}, "instagram.com")
       /\ \/ Under(url, <<"p">>) /\ SegIn(url, 2, WordSegments)
          \/ Under(url, <<"reel">>) /\ SegIn(url, 2, WordSegments)
          \/ Under(url, <<"tv">>) /\ SegIn(url, 2, WordSegments)
          \/ /\ Under(url, <<"stories">>)
             /\ SegIn(url, 2, WordSegments)
             /\ SegIn(url, 3, DigitSegments)
    \/ /\ StartsAt(url, {"", "www."}, "instagr.am")
       /\ Under(url, <<"p">>) /\ SegIn(url, 2, WordSegments)

tiktok_can_handle(url) ==
    \/ /\ StartsAt(url, {"", "www."}, "tiktok.com")
       /\ SegIn(url, 1, AtSegments)
       /\ SegIn(url, 2, {"video"})
       /\ SegIn(url, 3, DigitSegments)
    \/ /\ StartsAt(url, {"", "vm."}, "tiktok.com")
       /\ SegIn(url, 1, WordSegments)
    \/ /\ StartsAt(url, {"", "www."}, "tiktok.com")
       /\ Under(url, <<"t">>) /\ SegIn(url, 2, WordSegments)
    \/ /\ StartsAt(url, {"m."}, "tiktok.com")
       /\ Under(url, <<"v">>) /\ SegIn(url, 2, DigitSegments)

\* CompositeDownloaderService._get_handler over [instagram, tiktok]
get_handler(url) ==
    IF instagram_can_handle(url) THEN "instagram"
    ELSE IF tiktok_can_handle(url) THEN "tiktok"
    ELSE "None"

UlCall(op, result) == [op |-> op, result |-> result]

\* a URL arrives; each behaviour follows one URL
UlReceive ==
    /\ ulUrl = NoUrl
    /\ ulUrl' \in Urls
    /\ ulLast' = UlCall("receive", "None")
    /\ UNCHANGED notUL

\* DownloadRequest(url=...) without a platform
UlNewRequest ==
    /\ ulUrl # NoUrl
    /\ ulLast' = UlCall("DownloadRequest", inferred_platform(ulUrl))
    /\ UNCHANGED <<ulUrl, notUL>>

UlCanHandle ==
    /\ ulUrl # NoUrl
    /\ ulLast' = UlCall("can_handle",
                        IF get_handler(ulUrl) # "None" THEN "True" ELSE "False")
    /\ UNCHANGED <<ulUrl, notUL>>

\* extract_media_info and download_media: UnsupportedUrlError without a
\* handler, otherwise the handler's own call
UlExtractOrDownload ==
    /\ ulUrl # NoUrl
    /\ \E op \in {"extract_media_info", "download_media"} :
           ulLast' = UlCall(op, IF get_handler(ulUrl) = "None"
                                THEN "UnsupportedUrlError"
                                ELSE get_handler(ulUrl))
    /\ UNCHANGED <<ulUrl, notUL>>

\* get_media_metadata: None without a handler
UlGetMediaMetadata ==
    /\ ulUrl # NoUrl
    /\ ulLast' = UlCall("get_media_metadata", get_handler(ulUrl))
    /\ UNCHANGED <<ulUrl, notUL>>

\* validate_url: False without a handler
UlValidateUrl ==
    /\ ulUrl # NoUrl
    /\ ulLast' = UlCall("validate_url",
                        IF get_handler(ulUrl) = "None" THEN "False"
                        ELSE get_handler(ulUrl))
    /\ UNCHANGED <<ulUrl, notUL>>

NextUL ==
    \/ UlReceive
    \/ UlNewRequest
    \/ UlCanHandle
    \/ UlExtractOrDownload
    \/ UlGetMediaMetadata
    \/ UlValidateUrl


(***************************************************************************)
(* TelegramNotificationService: the sends in flight against the client     *)
(* (src/infrastructure/telegram/telegram_notification_service.py)          *)
(*                                                                         *)
(* Callers are counted, not told apart: those waiting for the semaphore,   *)
(* those holding it with bot.send_message / send_document / send_photo /   *)
(* send_video in flight, and those in send_media_group with                *)
(* bot.send_media_group in flight.                                         *)
(***************************************************************************)
SendLimit == 30                        \* asyncio.Semaphore(30)
LockedSends == {"send_message", "send_document", "send_photo", "send_video"}

SnCallers == snWaiting + snHeld + snGroup
SnInFlight == snHeld + snGroup

\* send_message / send_document / send_photo / send_video is called: the
\* caller enters "async with self._send_lock" at once when the semaphore
\* has a free slot and waits otherwise
SnSend ==
    /\ SnCallers < MaxCallers
    /\ \E op \in LockedSends : snLast' = op
    /\ IF snHeld < SendLimit /\ snWaiting = 0
       THEN snHeld' = snHeld + 1 /\ UNCHANGED snWaiting
       ELSE snWaiting' = snWaiting + 1 /\ UNCHANGED snHeld
    /\ UNCHANGED <<snGroup, notSN>>

\* a waiting caller is woken after a release
SnAcquire ==
    /\ snWaiting > 0
    /\ snHeld < SendLimit
    /\ snWaiting' = snWaiting - 1
    /\ snHeld' = snHeld + 1
    /\ UNCHANGED <<snGroup, snLast, notSN>>

\* the client call of a caller holding the semaphore ends, well or not, and
\* the semaphore is released
SnReturn ==
    /\ snHeld > 0
    /\ snHeld' = snHeld - 1
    /\ UNCHANGED <<snWaiting, snGroup, snLast, notSN>>

\* send_media_group is called and reaches bot.send_media_group
SnSendMediaGroup ==
    /\ SnCallers < MaxCallers
    /\ snGroup' = snGroup + 1
    /\ snLast' = "send_media_group"
    /\ UNCHANGED <<snWaiting, snHeld, notSN>>

\* bot.send_media_group ends
SnGroupReturn ==
    /\ snGroup > 0
    /\ snGroup' = snGroup - 1
    /\ UNCHANGED <<snWaiting, snHeld, snLast, notSN>>

NextSN ==
    \/ SnSend
    \/ SnAcquire
    \/ SnReturn
    \/ SnSendMediaGroup
    \/ SnGroupReturn


(***************************************************************************)
(* TelegramNotificationService: what one call returns                      *)
(* (src/infrastructure/telegram/telegram_notification_service.py)          *)
(*                                                                         *)
(* A client call succeeds or raises.  A file is missing or present, with a *)
(* size and an extension.                                                  *)
(***************************************************************************)
max_size == 50 * 1024 * 1024
TnFiles ==
    [exists : BOOLEAN, size : {1, max_size, max_size + 1},
     ext : {".jpg", ".mp4", ".zip"}]
NoFile == [exists |-> FALSE, size |-> 0, ext |-> "none"]
TnUsers == {1, 2}
TnUserLists == UNION {[1..n -> TnUsers] : n \in 0..MaxBroadcast}

\* "try: <body>; return True / except Exception: return False", for a body
\* that made the client calls given: [returned, raised]
try_except_Reraise(calls) ==
    IF \E k \in 1..Len(calls) : ~calls[k].ok
    THEN [returned |-> FALSE, raised |-> TRUE]
    ELSE [returned |-> TRUE, raised |-> FALSE]

try_except(calls) ==
    IF \E k \in 1..Len(calls) : ~calls[k].ok
    THEN [returned |-> FALSE, raised |-> FALSE]
    ELSE [returned |-> TRUE, raised |-> FALSE]

TnCall(op, file, user_ids, calls, out, results) ==
    [op |-> op, file |-> file, user_ids |-> user_ids, calls |-> calls,
     returned |-> out.returned, raised |-> out.raised, results |-> results]

\* send_document / send_photo / send_video on a file: open(file_path) raises
\* for a missing file, before any client call
send_file(op, file, ok) ==
    IF ~file.exists
    THEN TnCall(op, file, <<>>, <<>>,
                [returned |-> FALSE, raised |-> FALSE], <<>>)
    ELSE LET calls == <<[method |-> op, ok |-> ok]>> IN
         TnCall(op, file, <<>>, calls, try_except(calls), <<>>)

\* send_media: the method chosen by the extension, "none" when the file is
\* missing or over 50 MB
media_method(file) ==
    IF ~file.exists THEN "none"
    ELSE IF file.size > max_size THEN "none"
    ELSE IF file.ext \in {".jpg", ".jpeg", ".png", ".webp"} THEN "send_photo"
    ELSE IF file.ext \in {".mp4", ".mov", ".avi", ".mkv"} THEN "send_video"
    ELSE "send_document"

\* results of broadcast_message: one send_message per position, each
\* assignment results[user_id] = result replacing an earlier one
broadcast_results(user_ids, oks) ==
    [id \in {user_ids[k] : k \in 1..Len(user_ids)} |->
        LET last == CHOOSE k \in 1..Len(user_ids) :
                        /\ user_ids[k] = id
                        /\ \A j \in (k + 1)..Len(user_ids) : user_ids[j] # id
        IN try_except(<<[method |-> "send_message", ok |-> oks[last]]>>).returned]

\* send_message, edit_message, delete_message, send_typing_action,
\* send_upload_action: one client call inside try / except
TnSimple ==
    /\ \E op \in {"send_message", "edit_message", "delete_message",
                  "send_typing_action", "send_upload_action"},
          ok \in BOOLEAN :
           LET calls == <<[method |-> op, ok |-> ok]>> IN
           tnLast' = TnCall(op, NoFile, <<>>, calls, try_except(calls), <<>>)
    /\ UNCHANGED notTN

TnSendFile ==
    /\ \E op \in {"send_document", "send_photo", "send_video"},
          file \in TnFiles, ok \in BOOLEAN :
           tnLast' = send_file(op, file, ok)
    /\ UNCHANGED notTN

TnSendMedia ==
    /\ \E file \in TnFiles, ok \in BOOLEAN :
           LET method == media_method(file)
               sent == send_file(method, file, ok) IN
           tnLast' = IF method = "none"
                     THEN TnCall("send_media", file, <<>>, <<>>,
                                 [returned |-> FALSE, raised |-> FALSE], <<>>)
                     ELSE [sent EXCEPT !.op = "send_media"]
    /\ UNCHANGED notTN

\* send_media_group: False without a client call when no file is a present
\* photo or video
TnSendMediaGroup ==
    /\ \E file \in TnFiles, ok \in BOOLEAN :
           LET valid == file.exists /\ file.ext \in {".jpg", ".mp4"}
               calls == IF valid
                        THEN <<[method |-> "send_media_group", ok |-> ok]>>
                        ELSE <<>> IN
           tnLast' = TnCall("send_media_group", file, <<>>, calls,
                            IF valid THEN try_except(calls)
                            ELSE [returned |-> FALSE, raised |-> FALSE], <<>>)
    /\ UNCHANGED notTN

TnBroadcastMessage ==
    /\ \E user_ids \in TnUserLists :
       \E oks \in [1..Len(user_ids) -> BOOLEAN] :
           tnLast' = TnCall("broadcast_message", NoFile, user_ids,
                            [k \in 1..Len(user_ids) |->
                                [method |-> "send_message", ok |-> oks[k]]],
                            [returned |-> TRUE, raised |-> FALSE],
                            broadcast_results(user_ids, oks))
    /\ UNCHANGED notTN

NextTN ==
    \/ TnSimple
    \/ TnSendFile
    \/ TnSendMedia
    \/ TnSendMediaGroup
    \/ TnBroadcastMessage


(***************************************************************************)
(* BotManager: _cleanup_task and _rate_limit_cleanup_task                  *)
(* (src/presentation/telegram/bot_manager.py)                              *)
(*                                                                         *)
(* Each loop is "while self._is_running: try: sleep(period); <pass>        *)
(* except Exception: log; sleep(300)".  A task is at the loop test         *)
(* ("check"), in the first sleep ("sleep"), in its pass ("pass"), in the   *)
(* sleep of the except branch ("backoff"), or over ("exited").             *)
(***************************************************************************)
CleanupPeriod == 3600
RateLimitCleanupPeriod == 1800
RetryDelay == 300
Loops == {"cleanup", "rate_limit_cleanup"}
Period(l) == IF l = "cleanup" THEN CleanupPeriod ELSE RateLimitCleanupPeriod

\* start(): the flag is set and the two tasks are created
BmStart ==
    /\ ~bmStarted
    /\ bmStarted' = TRUE
    /\ bmRunning' = TRUE
    /\ bmPc' = [l \in Loops |-> "check"]
    /\ UNCHANGED <<bmSlept, bmWakes, notBM>>

\* stop()
BmStop ==
    /\ bmRunning
    /\ bmRunning' = FALSE
    /\ UNCHANGED <<bmStarted, bmPc, bmSlept, bmWakes, notBM>>

\* while self._is_running
BmCheck(l) ==
    /\ bmPc[l] = "check"
    /\ bmPc' = [bmPc EXCEPT ![l] = IF bmRunning THEN "sleep" ELSE "exited"]
    /\ UNCHANGED <<bmRunning, bmStarted, bmSlept, bmWakes, notBM>>

\* asyncio.sleep(period) is over and the pass begins
BmSleep(l) ==
    /\ bmPc[l] = "sleep"
    /\ bmPc' = [bmPc EXCEPT ![l] = "pass"]
    /\ bmSlept' = [bmSlept EXCEPT ![l] = @ + Period(l)]
    /\ bmWakes' = [bmWakes EXCEPT ![l] = IF bmRunning THEN @ ELSE @ + 1]
    /\ UNCHANGED <<bmRunning, bmStarted, notBM>>

\* the pass ends without an exception
BmPassDone(l) ==
    /\ bmPc[l] = "pass"
    /\ bmPc' = [bmPc EXCEPT ![l] = "check"]
    /\ bmSlept' = [bmSlept EXCEPT ![l] = 0]
    /\ UNCHANGED <<bmRunning, bmStarted, bmWakes, notBM>>

\* the pass raises: the except branch logs and starts asyncio.sleep(300)
BmPassRaise(l) ==
    /\ bmPc[l] = "pass"
    /\ bmPc' = [bmPc EXCEPT ![l] = "backoff"]
    /\ bmSlept' = [bmSlept EXCEPT ![l] = 0]
    /\ UNCHANGED <<bmRunning, bmStarted, bmWakes, notBM>>

\* asyncio.sleep(300) is over: back to the loop test
BmBackoff_Exit(l) ==
    /\ bmPc[l] = "backoff"
    /\ bmPc' = [bmPc EXCEPT ![l] = "exited"]
    /\ bmSlept' = [bmSlept EXCEPT ![l] = RetryDelay]
    /\ bmWakes' = [bmWakes EXCEPT ![l] = IF bmRunning THEN @ ELSE @ + 1]
    /\ UNCHANGED <<bmRunning, bmStarted, notBM>>

BmBackoff(l) ==
    /\ bmPc[l] = "backoff"
    /\ bmPc' = [bmPc EXCEPT ![l] = "check"]
    /\ bmSlept' = [bmSlept EXCEPT ![l] = RetryDelay]
    /\ bmWakes' = [bmWakes EXCEPT ![l] = IF bmRunning THEN @ ELSE @ + 1]
    /\ UNCHANGED <<bmRunning, bmStarted, notBM>>

NextBM ==
    \/ BmStart
    \/ BmStop
    \/ \E l \in Loops :
           \/ BmCheck(l)
           \/ BmSleep(l)
           \/ BmPassDone(l)
           \/ BmPassRaise(l)
           \/ BmBackoff(l)

\* the event loop runs a task that is ready, and a sleep or a pass ends
FairBM ==
    \A l \in Loops :
        /\ WF_vars(BmCheck(l))
        /\ WF_vars(BmSleep(l))
        /\ WF_vars(BmPassDone(l) \/ BmPassRaise(l))
        /\ WF_vars(BmBackoff(l))


(***************************************************************************)
(* BotManager: start, stop and restart in any order                        *)
(* (src/presentation/telegram/bot_manager.py)                              *)
(*                                                                         *)
(* Every start() that finds the flag cleared sets it and creates the two   *)
(* tasks anew; the tasks created by earlier calls are not cancelled and    *)
(* go on as their loop tells them.                                         *)
(***************************************************************************)
Starts == 1..MaxStarts

\* the places a loop can go to from pc, by lines 281-294 and 298-310
loop_next(pc, running) ==
    CASE pc = "check" -> IF running THEN {"sleep"} ELSE {"exited"}
      [] pc = "sleep" -> {"pass"}
      [] pc = "pass" -> {"check", "backoff"}
      [] pc = "backoff" -> {"check"}
      [] OTHER -> {}

\* start(): nothing when the flag is set; otherwise the flag is set and
\* _start_background_tasks creates both tasks
start(starts, pc) ==
    [pc EXCEPT ![starts + 1] = [l \in Loops |-> "check"]]

BrStart ==
    /\ ~brRunning
    /\ brRestart = "idle"
    /\ brStarts < MaxStarts
    /\ brRunning' = TRUE
    /\ brStarts' = brStarts + 1
    /\ brPc' = start(brStarts, brPc)
    /\ UNCHANGED <<brRestart, notBR>>

BrStop ==
    /\ brRestart = "idle"
    /\ brRunning' = FALSE
    /\ UNCHANGED <<brStarts, brPc, brRestart, notBR>>

\* restart(): stop(), then asyncio.sleep(2)
BrRestartStop ==
    /\ brRestart = "idle"
    /\ brRunning' = FALSE
    /\ brRestart' = "pause"
    /\ UNCHANGED <<brStarts, brPc, notBR>>

\* restart(): start() after the pause
BrRestartStart ==
    /\ brRestart = "pause"
    /\ brStarts < MaxStarts
    /\ brRestart' = "idle"
    /\ brRunning' = TRUE
    /\ brStarts' = brStarts + 1
    /\ brPc' = start(brStarts, brPc)
    /\ UNCHANGED notBR

\* a task created by some start() takes its next step
BrStep ==
    /\ \E g \in Starts, l \in Loops :
       \E pc \in loop_next(brPc[g][l], brRunning) :
           brPc' = [brPc EXCEPT ![g][l] = pc]
    /\ UNCHANGED <<brRunning, brStarts, brRestart, notBR>>

NextBR ==
    \/ BrStart
    \/ BrStop
    \/ BrRestartStop
    \/ BrRestartStart
    \/ BrStep


(***************************************************************************)
(* Container (src/infrastructure/container.py)                             *)
(*                                                                         *)
(* An object is known by its identity: the number of the initialize() call *)
(* that constructed it and its place in that call.  A key missing from     *)
(* _services holds Absent; the notification service starts as None.        *)
(***************************************************************************)
KeyOrder ==
    <<"user_repository", "analytics_repository",
      "download_request_repository", "downloader_service",
      "rate_limiter_service", "translation_service", "notification_service",
      "download_media_use_case", "manage_user_use_case",
      "analytics_use_case", "admin_use_case">>
Keys == {KeyOrder[i] : i \in 1..Len(KeyOrder)}
Place(k) == CHOOSE i \in 1..Len(KeyOrder) : KeyOrder[i] = k
\* the use cases set_notification_service patches
Patched == {"download_media_use_case", "manage_user_use_case", "admin_use_case"}
UseCases == Patched \cup {"analytics_use_case"}
Notifiers == {"s1", "s2"}
Absent == "absent"
Identity(attempt, k) ==
    IF k = "notification_service" THEN "None" ELSE <<attempt, Place(k)>>

NewContainer ==
    [initialized |-> FALSE, attempts |-> 0,
     services |-> [k \in Keys |-> Absent],
     note |-> [u \in Patched |-> "None"]]

\* the assignments of initialize() up to place upto, on a container that
\* is not initialized; _initialized is set when all were made
construct(c, upto) ==
    [initialized |-> upto = Len(KeyOrder),
     attempts |-> c.attempts + 1,
     services |-> [k \in Keys |->
                      IF Place(k) <= upto THEN Identity(c.attempts + 1, k)
                      ELSE c.services[k]],
     note |-> [u \in Patched |->
                  IF Place(u) <= upto THEN "None" ELSE c.note[u]]]

initialize_NoGuard(c, upto) == construct(c, upto)

\* initialize(): nothing when _initialized; a constructor that raises at
\* place upto + 1 leaves the earlier assignments
initialize(c, upto) == IF c.initialized THEN c ELSE construct(c, upto)

set_notification_service_ContainerOnly(c, service) ==
    [c EXCEPT !.services["notification_service"] = service]

\* set_notification_service: line 140, then the three attributes; KeyError
\* at line 143 when the use cases are not there
set_notification_service(c, service) ==
    IF c.services["download_media_use_case"] = Absent
    THEN [c EXCEPT !.services["notification_service"] = service]
    ELSE [c EXCEPT !.services["notification_service"] = service,
                   !.note = [u \in Patched |-> service]]

CtCall(op, arg, before) == [op |-> op, arg |-> arg, before |-> before]

\* initialize(), complete or raising in a constructor
CtInitialize ==
    /\ ct.initialized \/ ct.attempts < MaxAttempts
    /\ \E upto \in {0, 2, Len(KeyOrder)} :
           /\ ct' = initialize(ct, upto)
           /\ ctLast' = CtCall("initialize", "none", ct)
    /\ UNCHANGED notCT

CtSetNotificationService ==
    /\ \E service \in Notifiers :
           /\ ct' = set_notification_service(ct, service)
           /\ ctLast' = CtCall("set_notification_service", service, ct)
    /\ UNCHANGED notCT

\* a getter of the container
CtGet ==
    /\ \E k \in Keys : ctLast' = CtCall("get", k, ct)
    /\ UNCHANGED <<ct, notCT>>

NextCT ==
    \/ CtInitialize
    \/ CtSetNotificationService
    \/ CtGet


(***************************************************************************)
(* AdminUseCase (src/application/use_cases/admin_use_case.py) over the     *)
(* JSON user repository                                                    *)
(***************************************************************************)
AdUserIds == 1..NumUsers
Languages == {"en", "ru"}
NoLanguage == "None"
\* target_language: None, the empty string or a language code
Targets == {NoLanguage, ""} \cup Languages
AdUsers == [id : AdUserIds, language : Languages, is_banned : BOOLEAN]

\* the methods JsonUserRepository defines
UserRepositoryMethods ==
    {"save", "get_by_id", "get_all", "delete", "exists", "get_active_users",
     "get_banned_users", "count_total_users"}

RECURSIVE Select(_, _)
\* [x for x in seq if keep[x]], keep given as a set
Select(seq, keep) ==
    IF seq = <<>> THEN <<>>
    ELSE IF Head(seq) \in keep THEN <<Head(seq)>> \o Select(Tail(seq), keep)
         ELSE Select(Tail(seq), keep)

Position(seq, id) ==
    IF \E i \in 1..Len(seq) : seq[i].id = id
    THEN CHOOSE i \in 1..Len(seq) : seq[i].id = id
    ELSE 0

\* JsonUserRepository.save on the document: replace the record of the id,
\* or append
user_save(data, user) ==
    IF Position(data, user.id) > 0
    THEN [data EXCEPT ![Position(data, user.id)] = user]
    ELSE Append(data, user)

\* a Python slice index: negative counts from the end, then clamped
SliceIndex(i, n) ==
    LET j == IF i < 0 THEN i + n ELSE i
    IN  IF j < 0 THEN 0 ELSE IF j > n THEN n ELSE j

\* seq[start:end] of Python (positions from 0)
py_slice(seq, start_idx, end_idx) ==
    LET a == SliceIndex(start_idx, Len(seq))
        b == SliceIndex(end_idx, Len(seq))
    IN  IF a < b THEN [i \in 1..(b - a) |-> seq[a + i]] ELSE <<>>

AdResult ==
    [raised |-> FALSE, called |-> FALSE, handed |-> <<>>, users |-> <<>>,
     total |-> 0, pages |-> 0]

get_user_list_FloorPages(all_users, page, limit) ==
    [AdResult EXCEPT
        !.users = py_slice(all_users, (page - 1) * limit,
                           (page - 1) * limit + limit),
        !.total = Len(all_users),
        !.pages = Len(all_users) \div limit]

\* get_user_list: the slice of the page and the pagination report
get_user_list(all_users, page, limit) ==
    LET first == (page - 1) * limit
        beyond == first + limit
    IN  [AdResult EXCEPT
            !.users = py_slice(all_users, first, beyond),
            !.total = Len(all_users),
            !.pages = (Len(all_users) + limit - 1) \div limit]

\* broadcast_message: the users fetched, the banned ones filtered out, the
\* call of the notification port and the report; a repository method that
\* does not exist raises AttributeError
broadcast_message(data, target_language) ==
    LET filtered == target_language \notin {NoLanguage, ""}
        active_users == Select(data, {u \in AdUsers : ~u.is_banned})
    IN  IF filtered /\ "get_users_by_language" \notin UserRepositoryMethods
        THEN [AdResult EXCEPT !.raised = TRUE]
        ELSE [AdResult EXCEPT !.called = TRUE, !.handed = active_users,
                              !.total = Len(active_users)]

AdCall(op, target, page, limit, result) ==
    [op |-> op, target |-> target, page |-> page, limit |-> limit,
     result |-> result]

\* user_repository.save(user): a user registers, or is stored changed;
\* users are numbered in the order they register
AdSave ==
    /\ \E user \in AdUsers :
           /\ user.id <= Len(adStore) + 1
           /\ adStore' = user_save(adStore, user)
           /\ adLast' = AdCall("save", NoLanguage, 0, 0, AdResult)
    /\ UNCHANGED notAD

AdGetUserList ==
    /\ \E page \in 0..MaxPage, limit \in 1..MaxLimit :
           adLast' = AdCall("get_user_list", NoLanguage, page, limit,
                            get_user_list(adStore, page, limit))
    /\ UNCHANGED <<adStore, notAD>>

AdBroadcastMessage ==
    /\ \E target \in Targets :
           adLast' = AdCall("broadcast_message", target, 0, 0,
                            broadcast_message(adStore, target))
    /\ UNCHANGED <<adStore, notAD>>

NextAD ==
    \/ AdSave
    \/ AdGetUserList
    \/ AdBroadcastMessage


(***************************************************************************)
(* JsonTranslationService.get_text                                         *)
(* (src/infrastructure/external_services/json_translation_service.py)     *)
(*                                                                         *)
(* A locale file holds a JSON object (its key set is kept), some other     *)
(* JSON value, or nothing that loads (absent, or not JSON).  A text of a   *)
(* dictionary is a template with one placeholder; a key has none.          *)
(***************************************************************************)
SUPPORTED_LANGUAGES == {"en", "ru", "uz"}
RequestedLanguages == SUPPORTED_LANGUAGES \cup {"de"}
DefaultLanguages == {"en", "ru", "de"}
TextKeys == {"start", "nokey"}
Unloadable == [kind |-> "unloadable", keys |-> {}]
NotAnObject == [kind |-> "array", keys |-> {}]
Unloaded == [kind |-> "unloaded", keys |-> {}]
Object(keys) == [kind |-> "object", keys |-> keys]
\* "nokey" is a key no locale file defines
Documents == {Unloadable, NotAnObject, Object({}), Object({"start"})}
\* keyword arguments: none, the placeholder's, or another name
KwargKinds == {"none", "fits", "other"}

FileOf(files, language) ==
    IF language \in SUPPORTED_LANGUAGES THEN files[language] ELSE Unloadable

\* _load_language: the document is cached when the file exists and parses
load_language(cache, files, language) ==
    IF FileOf(files, language).kind = "unloadable" THEN cache
    ELSE [cache EXCEPT ![language] = FileOf(files, language)]

ensure_loaded(cache, files, language) ==
    IF cache[language].kind = "unloaded"
    THEN load_language(cache, files, language)
    ELSE cache

TsResult(source, filled) == [raised |-> FALSE, source |-> source, filled |-> filled]

\* text.format(**kwargs): a template is filled when its placeholder is
\* given, left as it is on KeyError; a key has nothing to fill
format(source, kwargs) == TsResult(source, source # "key" /\ kwargs = "fits")

get_text_NoEnglish(cache, files, default, key, language, kwargs) ==
    LET lang == IF language \notin SUPPORTED_LANGUAGES THEN default
                ELSE language
        c1 == ensure_loaded(cache, files, lang)
    IN  IF c1[lang].kind = "array" THEN <<c1, TsResult("key", FALSE)>>
        ELSE IF key \in c1[lang].keys THEN <<c1, format(lang, kwargs)>>
        ELSE <<c1, format("key", kwargs)>>

\* get_text: the cache it leaves and the text it returns, named by the
\* dictionary it came from ("key": the key itself); .get on a document
\* that is not an object raises AttributeError, caught at line 240
get_text(cache, files, default, key, language, kwargs) ==
    LET lang == IF language \notin SUPPORTED_LANGUAGES THEN default
                ELSE language
        c1 == ensure_loaded(cache, files, lang)
        c2 == ensure_loaded(c1, files, "en")
    IN  IF c1[lang].kind = "array" THEN <<c1, TsResult("key", FALSE)>>
        ELSE IF key \in c1[lang].keys THEN <<c1, format(lang, kwargs)>>
        ELSE IF lang = "en" THEN <<c1, format("key", kwargs)>>
        ELSE IF c2["en"].kind = "array" THEN <<c2, TsResult("key", FALSE)>>
        ELSE IF key \in c2["en"].keys THEN <<c2, format("en", kwargs)>>
        ELSE <<c2, format("key", kwargs)>>

NewCache == [l \in RequestedLanguages |-> Unloaded]

TsCall(op, key, language, kwargs, before, result) ==
    [op |-> op, key |-> key, language |-> language, kwargs |-> kwargs,
     before |-> before, result |-> result]

\* the process starts: Settings reads DEFAULT_LANGUAGE, the service is
\* constructed with nothing loaded
TsStart ==
    /\ \E default \in DefaultLanguages : tsDefault' = default
    /\ tsCache' = NewCache
    /\ tsLast' = TsCall("start", "start", "en", "none", NewCache,
                        TsResult("key", FALSE))
    /\ UNCHANGED <<tsFiles, notTS>>

\* a locale file is replaced while the service is not running on it
TsDeploy ==
    /\ \E l \in SUPPORTED_LANGUAGES, d \in Documents :
           /\ tsCache[l] = Unloaded
           /\ tsFiles' = [tsFiles EXCEPT ![l] = d]
    /\ tsLast' = TsCall("deploy", "start", "en", "none", tsCache,
                        TsResult("key", FALSE))
    /\ UNCHANGED <<tsCache, tsDefault, notTS>>

TsGetText ==
    /\ \E key \in TextKeys, language \in RequestedLanguages,
          kwargs \in KwargKinds :
           LET r == get_text(tsCache, tsFiles, tsDefault, key, language, kwargs)
           IN  /\ tsCache' = r[1]
               /\ tsLast' = TsCall("get_text", key, language, kwargs,
                                   tsCache, r[2])
    /\ UNCHANGED <<tsFiles, tsDefault, notTS>>

NextTS ==
    \/ TsStart
    \/ TsDeploy
    \/ TsGetText


(***************************************************************************)
(* DownloadMediaUseCase.execute invocations of one user overlapping each   *)
(* other and a ban (AdminUseCase.manage_user_ban, ManageUserUseCase        *)
(* .ban_user), all within one rate-limit window.                           *)
(*                                                                         *)
(* Every await of execute lets the other tasks run.  The awaits between    *)
(* the rate check and the success message touch neither the user store nor *)
(* the limiter and are one step here.  update on the user store is the     *)
(* store's save: it writes the whole record of the User object it is       *)
(* given.                                                                  *)
(***************************************************************************)
Downloaders == 1..NumDownloaders
CxNow == 0
CxUserId == 1
NewUser == [download_count |-> 0, is_banned |-> FALSE]
CxIdle == [pc |-> "idle", user |-> NewUser]

CxMove(t, pc) == cxTask' = [cxTask EXCEPT ![t].pc = pc]
CxLeave(t) == cxTask' = [cxTask EXCEPT ![t] = CxIdle]

\* lines 38-45: execute begins and reads the user
CxGetUser(t) ==
    /\ cxTask[t].pc = "idle"
    /\ cxStarted < MaxExecutes
    /\ cxStarted' = cxStarted + 1
    /\ cxTask' = [cxTask EXCEPT ![t] = [pc |-> "check_rate", user |-> cxUser]]
    /\ UNCHANGED <<cxUser, cxLimiter, cxAdmin, cxSucceeded, cxBanned, notCX>>

\* lines 47-54: limited users are turned away with ValueError
CxCheckRate(t) ==
    /\ cxTask[t].pc = "check_rate"
    /\ IF is_rate_limited(cxLimiter, CxUserId, "download", CxNow)
       THEN CxLeave(t)
       ELSE CxMove(t, "work")
    /\ UNCHANGED <<cxUser, cxLimiter, cxAdmin, cxStarted, cxSucceeded,
                   cxBanned, notCX>>

\* lines 56-101: validation, the request record, the download and the
\* messages; an exception ends in the except clause and is raised again
CxWork(t) ==
    /\ cxTask[t].pc = "work"
    /\ \/ CxMove(t, "update_user")
       \/ CxLeave(t)
    /\ UNCHANGED <<cxUser, cxLimiter, cxAdmin, cxStarted, cxSucceeded,
                   cxBanned, notCX>>

\* lines 104-105: user.increment_downloads(), then the User object is
\* stored
CxUpdateUser(t) ==
    /\ cxTask[t].pc = "update_user"
    /\ \/ /\ cxUser' = [cxTask[t].user EXCEPT !.download_count = @ + 1]
          /\ cxTask' = [cxTask EXCEPT
                           ![t].pc = "increment_usage",
                           ![t].user.download_count = @ + 1]
       \/ /\ CxLeave(t)
          /\ UNCHANGED cxUser
    /\ UNCHANGED <<cxLimiter, cxAdmin, cxStarted, cxSucceeded, cxBanned,
                   notCX>>

\* lines 108-148: the usage is counted, the analytics record written and
\* the request returned
CxIncrementUsage(t) ==
    /\ cxTask[t].pc = "increment_usage"
    /\ cxLimiter' = increment_usage(cxLimiter, CxUserId, "download", CxNow)
    /\ cxSucceeded' = cxSucceeded + 1
    /\ CxLeave(t)
    /\ UNCHANGED <<cxUser, cxAdmin, cxStarted, cxBanned, notCX>>

\* ban_user / manage_user_ban: the user is read
CxBanRead ==
    /\ cxAdmin.pc = "idle"
    /\ ~cxBanned
    /\ cxAdmin' = [pc |-> "update", user |-> cxUser]
    /\ UNCHANGED <<cxUser, cxLimiter, cxTask, cxStarted, cxSucceeded,
                   cxBanned, notCX>>

\* user.ban_user(), then the User object is stored
CxBanUpdate ==
    /\ cxAdmin.pc = "update"
    /\ cxUser' = [cxAdmin.user EXCEPT !.is_banned = TRUE]
    /\ cxBanned' = TRUE
    /\ cxAdmin' = CxIdle
    /\ UNCHANGED <<cxLimiter, cxTask, cxStarted, cxSucceeded, notCX>>

NextCX ==
    \/ \E t \in Downloaders : CxGetUser(t)
    \/ \E t \in Downloaders : CxCheckRate(t)
    \/ \E t \in Downloaders : CxWork(t)
    \/ \E t \in Downloaders : CxUpdateUser(t)
    \/ \E t \in Downloaders : CxIncrementUsage(t)
    \/ CxBanRead
    \/ CxBanUpdate


(***************************************************************************)
(* Read-only queries beside a locked save                                  *)
(* (src/infrastructure/repositories/json_user_repository.py,               *)
(* json_download_request_repository.py)                                    *)
(*                                                                         *)
(* read_text and write_text run in threads of the default executor, so a   *)
(* read can fall between the two things write_text does: open the file     *)
(* for writing, which empties it, and write the content.  An empty file    *)
(* is not JSON.  Task 0 is the one that saves; the readers call get_by_id, *)
(* get_all and the like, which take no lock.                               *)
(***************************************************************************)
Saver == 0
Readers == 1..NumReaders
RwTasks == {Saver} \cup Readers
RwIds == {"a", "b"}
EmptyFile == [kind |-> "empty", data |-> <<>>]
JsonFile(data) == [kind |-> "json", data |-> data]
RwIdle == [pc |-> "idle", id |-> "none", pending |-> <<>>, after |-> "idle"]

\* _write_data called with the list data, control going to pc after it
RwWrite(t, data, after) ==
    rwTask' = [rwTask EXCEPT ![t].pc = "open", ![t].pending = data,
                             ![t].after = after]

\* save: the lock is taken (lines 94-96)
RwSaveBegin ==
    /\ rwTask[Saver].pc = "idle"
    /\ rwLock = None
    /\ rwSaves < MaxSaves
    /\ \E id \in RwIds : rwTask' = [rwTask EXCEPT ![Saver].pc = "read",
                                                  ![Saver].id = id]
    /\ rwLock' = Saver
    /\ rwSaves' = rwSaves + 1
    /\ UNCHANGED <<rwFile, rwSaved, notRW>>

\* save: _read_data and the change of the list (lines 98-110); on
\* JSONDecodeError _read_data writes [] first and returns []
RwSaveRead ==
    /\ rwTask[Saver].pc = "read"
    /\ IF rwFile.kind = "json"
       THEN RwWrite(Saver, Upsert(rwFile.data, [id |-> rwTask[Saver].id]),
                    "return")
       ELSE RwWrite(Saver, <<>>, "resume")
    /\ UNCHANGED <<rwFile, rwLock, rwSaves, rwSaved, notRW>>

\* save goes on with the empty list _read_data returned
RwSaveResume ==
    /\ rwTask[Saver].pc = "resume"
    /\ RwWrite(Saver, Upsert(<<>>, [id |-> rwTask[Saver].id]), "return")
    /\ UNCHANGED <<rwFile, rwLock, rwSaves, rwSaved, notRW>>

\* save returns and the lock is released (line 112)
RwSaveReturn ==
    /\ rwTask[Saver].pc = "return"
    /\ rwLock' = None
    /\ rwSaved' = rwSaved \cup {rwTask[Saver].id}
    /\ rwTask' = [rwTask EXCEPT ![Saver] = RwIdle]
    /\ UNCHANGED <<rwFile, rwSaves, notRW>>

\* get_by_id, get_all, ...: _read_data without the lock; a file that does
\* not decode is reset to [] (lines 42-46), a document is only returned
RwQuery(t) ==
    /\ rwTask[t].pc = "idle"
    /\ rwFile.kind # "json"
    /\ RwWrite(t, <<>>, "idle")
    /\ UNCHANGED <<rwFile, rwLock, rwSaves, rwSaved, notRW>>

\* write_text opens the file, which empties it
RwOpen(t) ==
    /\ rwTask[t].pc = "open"
    /\ rwFile' = EmptyFile
    /\ rwTask' = [rwTask EXCEPT ![t].pc = "fill"]
    /\ UNCHANGED <<rwLock, rwSaves, rwSaved, notRW>>

\* write_text writes the content and closes the file
RwFill(t) ==
    /\ rwTask[t].pc = "fill"
    /\ rwFile' = JsonFile(rwTask[t].pending)
    /\ rwTask' = [rwTask EXCEPT ![t].pc = rwTask[t].after,
                                ![t].pending = <<>>]
    /\ UNCHANGED <<rwLock, rwSaves, rwSaved, notRW>>

NextRW ==
    \/ RwSaveBegin
    \/ RwSaveRead
    \/ RwSaveResume
    \/ RwSaveReturn
    \/ \E t \in Readers : RwQuery(t)
    \/ \E t \in RwTasks : RwOpen(t)
    \/ \E t \in RwTasks : RwFill(t)


(***************************************************************************)
(* JsonRateLimiterService: one call on a stored document of two users      *)
(* (src/infrastructure/external_services/json_rate_limiter_service.py).    *)
(* The document is any document the mutators can have left behind, the     *)
(* call is any operation of the service on either user.                    *)
(***************************************************************************)
RmUsers == {1, 2}
RmUsed == 2
RmClock == 2

\* the clock readings of a call and the reset times found in the document
RmTimes == {TickSeconds * k : k \in 1..RmClock}
RmResets == {TickSeconds * k : k \in 1..(RmClock + 1)}

\* set_custom_limit takes any integers: a limit of two requests in 200 s,
\* and a limit whose period is no time at all
RmCustomLimits == CustomLimits \cup {[requests |-> 1, period_seconds |-> 0]}

RmCounters ==
    {NoCounter} \cup
    {[present |-> TRUE, used |-> n, reset_time |-> r] :
        n \in 1..RmUsed, r \in RmResets}

RmCustoms ==
    {NoCustom} \cup
    {[present |-> TRUE, requests |-> c.requests,
      period_seconds |-> c.period_seconds] : c \in RmCustomLimits}

RmBlocks == {None, Permanent} \cup RmResets

RmEntry(download, message, custom_key, custom, blocked_until) ==
    [exists |-> TRUE,
     counters |-> [a \in RlActions |->
                      IF a = "download" THEN download ELSE message],
     custom_key |-> custom_key,
     custom |-> [a \in RlActions |->
                    IF a = "download" THEN custom ELSE NoCustom],
     blocked_until |-> blocked_until]

\* the entries of the first user: every combination of a download counter,
\* an old message counter, a custom download limit and a block
RmEntries ==
    {NoEntry} \cup
    {e \in {RmEntry(c, m, k, q, b) :
               c \in RmCounters,
               m \in {NoCounter, [present |-> TRUE, used |-> 1,
                                  reset_time |-> TickSeconds]},
               k \in BOOLEAN, q \in RmCustoms, b \in RmBlocks} :
        e.custom["download"].present => e.custom_key}

\* the entries of the second user: none, an empty one, a used and limited
\* one, a permanently blocked one
RmOthers ==
    {NoEntry,
     RmEntry(NoCounter, NoCounter, FALSE, NoCustom, None),
     RmEntry([present |-> TRUE, used |-> 1, reset_time |-> TickSeconds * 2],
             NoCounter, TRUE,
             [present |-> TRUE, requests |-> 2, period_seconds |-> 200],
             None),
     RmEntry(NoCounter, NoCounter, FALSE, NoCustom, Permanent)}

RmDocuments ==
    {[u \in RmUsers |-> IF u = 1 THEN e ELSE o] :
        e \in RmEntries, o \in RmOthers}

\* reset_time of the dictionary get_rate_limit_info returns
reset_time_info(data, user, action, now) ==
    LET user_data == data[user]
        action_data == user_data.counters[action]
        cfg == limit_config(user_data, action)
        reset_time == IF action_data.present THEN action_data.reset_time
                      ELSE now
    IN IF now >= reset_time THEN now + cfg.period_seconds ELSE reset_time

get_time_until_reset(data, user, action, now) ==
    LET reset_time == reset_time_info(data, user, action, now)
    IN IF reset_time > now THEN reset_time - now ELSE 0

\* the document after a query: the window a query finds expired is reset in
\* its local variables only, data never reaches _write_data
queried_Persisting(data, user, action, now) ==
    LET action_data == data[user].counters[action]
    IN IF action_data.present /\ now >= action_data.reset_time
       THEN [data EXCEPT ![user].counters[action] =
                [present |-> TRUE, used |-> 0,
                 reset_time |-> reset_time_info(data, user, action, now)]]
       ELSE data

queried(data, user, action, now) == data

\* cleaned_count of cleanup_expired_limits: the deletions of one entry
cleaned_items_NoEntries(user_data, now) ==
    LET expired == {a \in RlActions :
                       /\ user_data.counters[a].present
                       /\ now >= user_data.counters[a].reset_time}
        block == IF /\ user_data.blocked_until \notin {None, Permanent}
                    /\ now >= user_data.blocked_until
                 THEN 1 ELSE 0
    IN IF ~user_data.exists THEN 0 ELSE Cardinality(expired) + block

cleaned_items(user_data, now) ==
    LET expired == {a \in RlActions :
                       /\ user_data.counters[a].present
                       /\ now >= user_data.counters[a].reset_time}
        block == IF /\ user_data.blocked_until \notin {None, Permanent}
                    /\ now >= user_data.blocked_until
                 THEN 1 ELSE 0
        entry == IF cleaned_entry(user_data, now).exists THEN 0 ELSE 1
    IN IF ~user_data.exists THEN 0
       ELSE Cardinality(expired) + block + entry

RECURSIVE SumOver(_, _)
SumOver(f, S) ==
    IF S = {} THEN 0
    ELSE LET x == CHOOSE y \in S : TRUE
         IN f[x] + SumOver(f, S \ {x})

cleaned_count(data, now) ==
    SumOver([u \in DOMAIN data |-> cleaned_items(data[u], now)], DOMAIN data)

\* one call is made on the document; rmLast keeps it with its result and
\* with the document it found
RmCall(op, user, action, result) ==
    /\ rmLast.op = "none"
    /\ rmLast' = [op |-> op, user |-> user, action |-> action,
                  result |-> result, before |-> rmData]
    /\ UNCHANGED <<rmNow, notRM>>

RmIsRateLimited ==
    \E u \in RmUsers, a \in RlActions :
        /\ rmData' = queried(rmData, u, a, rmNow)
        /\ RmCall("is_rate_limited", u, a,
                  is_rate_limited(rmData, u, a, rmNow))

RmIsUserBlocked ==
    \E u \in RmUsers :
        /\ rmData' = queried(rmData, u, "download", rmNow)
        /\ RmCall("is_user_blocked", u, "none",
                  is_user_blocked(rmData, u, rmNow))

RmGetRateLimitInfo ==
    \E u \in RmUsers, a \in RlActions :
        /\ rmData' = queried(rmData, u, a, rmNow)
        /\ RmCall("get_rate_limit_info", u, a,
                  get_rate_limit_info(rmData, u, a, rmNow))

RmGetTimeUntilReset ==
    \E u \in RmUsers, a \in RlActions :
        /\ rmData' = queried(rmData, u, a, rmNow)
        /\ RmCall("get_time_until_reset", u, a,
                  get_time_until_reset(rmData, u, a, rmNow))

RmIncrementUsage ==
    \E u \in RmUsers, a \in RlActions :
        /\ rmData' = increment_usage(rmData, u, a, rmNow)
        /\ RmCall("increment_usage", u, a, TRUE)

RmResetUserLimits ==
    \E u \in RmUsers :
        /\ rmData' = reset_user_limits(rmData, u)
        /\ RmCall("reset_user_limits", u, "none", TRUE)

RmSetCustomLimit ==
    \E u \in RmUsers, a \in RlActions, c \in RmCustomLimits :
        /\ rmData' = set_custom_limit(rmData, u, a, c.requests,
                                      c.period_seconds)
        /\ RmCall("set_custom_limit", u, a, TRUE)

RmBlockUser ==
    \E u \in RmUsers, h \in BlockDurations :
        /\ rmData' = block_user(rmData, u, h, rmNow)
        /\ RmCall("block_user", u, "none", TRUE)

RmUnblockUser ==
    \E u \in RmUsers :
        /\ rmData' = unblock_user(rmData, u)
        /\ RmCall("unblock_user", u, "none", TRUE)

RmCleanupExpiredLimits ==
    /\ rmData' = cleanup_expired_limits(rmData, rmNow)
    /\ RmCall("cleanup_expired_limits", 0, "none",
              cleaned_count(rmData, rmNow))

NextRM ==
    \/ RmIsRateLimited
    \/ RmIsUserBlocked
    \/ RmGetRateLimitInfo
    \/ RmGetTimeUntilReset
    \/ RmIncrementUsage
    \/ RmResetUserLimits
    \/ RmSetCustomLimit
    \/ RmBlockUser
    \/ RmUnblockUser
    \/ RmCleanupExpiredLimits

(***************************************************************************)
(* JsonRateLimiterService: concurrent calls on rate_limits.json            *)
(* (src/infrastructure/external_services/json_rate_limiter_service.py).    *)
(* The mutators run inside `async with self._lock`, the two checks do not. *)
(* read_text and write_text run in an executor thread: write_text opens    *)
(* the file, which empties it, and then writes the text.  A read_text or a *)
(* write_text may raise; a write_text that raises has failed to open the   *)
(* file or has opened it and failed to write.                              *)
(***************************************************************************)
RfTasks == 1..2
RfCalls == 3
RfFaults == 1
RfUser == CHOOSE u \in RlUsers : TRUE
RfNow == CxNow
RfCustom == CHOOSE c \in CustomLimits : TRUE

RfMutators == {"increment_usage", "block_user", "unblock_user",
               "reset_user_limits", "set_custom_limit",
               "cleanup_expired_limits"}
RfChecks == {"is_user_blocked", "is_rate_limited"}

\* "{}", and the file between the open and the write of write_text
RfEmptyDoc == [u \in RlUsers |-> NoEntry]
RfJson(data) == [kind |-> "json", data |-> data]
RfOpened == [kind |-> "empty", data |-> RfEmptyDoc]

\* the document of a user who has a custom limit and has used it up
RfLeft ==
    increment_usage(
        increment_usage(
            set_custom_limit(RfEmptyDoc, RfUser, "download",
                             RfCustom.requests, RfCustom.period_seconds),
            RfUser, "download", RfNow),
        RfUser, "download", RfNow)

RfIdle == [pc |-> "idle", op |-> "none", data |-> RfEmptyDoc, second |-> FALSE,
           res |-> FALSE, faulted |-> FALSE, overlapped |-> FALSE,
           before |-> RfOpened]

RfNoLast == [op |-> "none", res |-> FALSE, faulted |-> FALSE,
             overlapped |-> FALSE, before |-> RfOpened]

\* the document a mutator hands to _write_data
Applied(op, data) ==
    CASE op = "increment_usage" ->
             increment_usage(data, RfUser, "download", RfNow)
      [] op = "block_user" -> block_user(data, RfUser, None, RfNow)
      [] op = "unblock_user" -> unblock_user(data, RfUser)
      [] op = "reset_user_limits" -> reset_user_limits(data, RfUser)
      [] op = "set_custom_limit" ->
             set_custom_limit(data, RfUser, "download", RfCustom.requests,
                              RfCustom.period_seconds)
      [] op = "cleanup_expired_limits" -> cleanup_expired_limits(data, RfNow)

\* unblock_user, reset_user_limits and cleanup_expired_limits write only
\* when they have changed something
WritesBack(op, data) ==
    CASE op = "unblock_user" -> data[RfUser].blocked_until # None
      [] op = "reset_user_limits" -> data[RfUser].exists
      [] op = "cleanup_expired_limits" -> cleaned_count(data, RfNow) > 0
      [] OTHER -> TRUE

\* what a call returns: when it ends normally, when an exception reaches
\* its except clause
Returned(op, data) ==
    IF op = "cleanup_expired_limits" THEN cleaned_count(data, RfNow) ELSE TRUE

Excepted(op) ==
    IF op = "cleanup_expired_limits" THEN 0 ELSE FALSE

\* the task after _read_data has returned data
After(task, data) ==
    IF task.op = "is_user_blocked"
    THEN [task EXCEPT !.pc = "exit",
                      !.res = is_user_blocked(data, RfUser, RfNow)]
    ELSE IF task.op = "is_rate_limited"
    THEN IF ~task.second
         THEN IF is_user_blocked(data, RfUser, RfNow)
              THEN [task EXCEPT !.pc = "exit", !.res = TRUE]
              ELSE [task EXCEPT !.pc = "read", !.second = TRUE]
         ELSE [task EXCEPT !.pc = "exit",
                           !.res = counter_limited(data, RfUser,
                                                   "download", RfNow)]
    ELSE IF WritesBack(task.op, data)
    THEN [task EXCEPT !.pc = "open", !.data = Applied(task.op, data),
                      !.res = Returned(task.op, data)]
    ELSE [task EXCEPT !.pc = "exit", !.res = Returned(task.op, data)]

\* the task after _read_data or _write_data has raised RepositoryError: the
\* is_user_blocked inside is_rate_limited answers False and is_rate_limited
\* goes on to its own read, every other call ends in its except clause
Raised(task) ==
    IF task.op = "is_rate_limited" /\ ~task.second
    THEN [task EXCEPT !.pc = "read", !.second = TRUE, !.faulted = TRUE]
    ELSE [task EXCEPT !.pc = "exit", !.res = Excepted(task.op),
                      !.faulted = TRUE]

RfBusy(t) == rfTask[t].pc # "idle"

\* a call begins; an unblock_user call ends the standing block
RfStart(t) ==
    \E op \in RfMutators \cup RfChecks :
        /\ rfTask[t].pc = "idle"
        /\ rfGhost.calls < RfCalls
        /\ rfTask' = [u \in RfTasks |->
                         IF u = t
                         THEN [RfIdle EXCEPT
                                 !.pc = IF op \in RfMutators THEN "lock"
                                        ELSE "read",
                                 !.op = op,
                                 !.before = rfFile,
                                 !.overlapped = \E v \in RfTasks : RfBusy(v)]
                         ELSE IF RfBusy(u)
                         THEN [rfTask[u] EXCEPT !.overlapped = TRUE]
                         ELSE rfTask[u]]
        /\ rfGhost' = [rfGhost EXCEPT
                          !.calls = @ + 1,
                          !.blocked = @ /\ op # "unblock_user",
                          !.last = RfNoLast]
        /\ UNCHANGED <<rfFile, rfLock, notRF>>

\* async with self._lock
RfAcquire(t) ==
    /\ rfTask[t].pc = "lock"
    /\ rfLock = None
    /\ rfLock' = t
    /\ rfTask' = [rfTask EXCEPT ![t].pc = "read"]
    /\ UNCHANGED <<rfFile, rfGhost, notRF>>

\* _read_data: read_text and json.loads; an empty file does not decode, and
\* _read_data goes on to write "{}"
RfRead(t) ==
    /\ rfTask[t].pc = "read"
    /\ rfTask' = [rfTask EXCEPT ![t] =
                     IF rfFile.kind = "json" THEN After(@, rfFile.data)
                     ELSE [@ EXCEPT !.pc = "ropen"]]
    /\ UNCHANGED <<rfFile, rfLock, rfGhost, notRF>>

\* _write_data({}) of _read_data: write_text opens the file, then writes
RfResetOpen(t) ==
    /\ rfTask[t].pc = "ropen"
    /\ rfFile' = RfOpened
    /\ rfTask' = [rfTask EXCEPT ![t].pc = "rfill"]
    /\ UNCHANGED <<rfLock, rfGhost, notRF>>

RfResetFill(t) ==
    /\ rfTask[t].pc = "rfill"
    /\ rfFile' = RfJson(RfEmptyDoc)
    /\ rfTask' = [rfTask EXCEPT ![t] = After(@, RfEmptyDoc)]
    /\ UNCHANGED <<rfLock, rfGhost, notRF>>

\* _write_data(data) of a mutator: write_text opens the file, then writes
RfOpen(t) ==
    /\ rfTask[t].pc = "open"
    /\ rfFile' = RfOpened
    /\ rfTask' = [rfTask EXCEPT ![t].pc = "fill"]
    /\ UNCHANGED <<rfLock, rfGhost, notRF>>

RfFill(t) ==
    /\ rfTask[t].pc = "fill"
    /\ rfFile' = RfJson(rfTask[t].data)
    /\ rfTask' = [rfTask EXCEPT ![t].pc = "exit"]
    /\ UNCHANGED <<rfLock, rfGhost, notRF>>

\* the call returns and leaves the lock; a block_user call that returns
\* True and has met no other call begins the standing block
RfReturn(t) ==
    /\ rfTask[t].pc = "exit"
    /\ rfLock' = IF rfLock = t THEN None ELSE rfLock
    /\ rfGhost' = [rfGhost EXCEPT
                      !.blocked =
                          IF rfTask[t].op = "block_user"
                          THEN /\ rfTask[t].res
                               /\ ~rfTask[t].overlapped
                          ELSE @,
                      !.last = [op |-> rfTask[t].op,
                                res |-> rfTask[t].res,
                                faulted |-> rfTask[t].faulted,
                                overlapped |-> rfTask[t].overlapped,
                                before |-> rfTask[t].before]]
    /\ rfTask' = [rfTask EXCEPT ![t] = RfIdle]
    /\ UNCHANGED <<rfFile, notRF>>

\* read_text raises (the file cannot be opened or read)
RfReadFault(t) ==
    /\ rfTask[t].pc = "read"
    /\ rfGhost.faults < RfFaults
    /\ rfGhost' = [rfGhost EXCEPT !.faults = @ + 1]
    /\ rfTask' = [rfTask EXCEPT ![t] = Raised(@)]
    /\ UNCHANGED <<rfFile, rfLock, notRF>>

\* write_text raises: before it has opened the file, or after it has
\* opened it and before the text is written
RfWriteFault(t) ==
    /\ rfTask[t].pc \in {"open", "ropen", "fill", "rfill"}
    /\ rfGhost.faults < RfFaults
    /\ rfGhost' = [rfGhost EXCEPT !.faults = @ + 1]
    /\ rfTask' = [rfTask EXCEPT ![t] = Raised(@)]
    /\ UNCHANGED <<rfFile, rfLock, notRF>>

\* the calls without storage faults
NextRB ==
    \E t \in RfTasks :
        \/ RfStart(t)
        \/ RfAcquire(t)
        \/ RfRead(t)
        \/ RfResetOpen(t)
        \/ RfResetFill(t)
        \/ RfOpen(t)
        \/ RfFill(t)
        \/ RfReturn(t)

\* the calls with storage faults
NextRF ==
    \/ NextRB
    \/ \E t \in RfTasks : RfReadFault(t)
    \/ \E t \in RfTasks : RfWriteFault(t)

(***************************************************************************)
(* JsonTranslationService: add_translation beside get_text,                *)
(* reload_translations and another add_translation, for one supported      *)
(* language (src/infrastructure/external_services/                         *)
(* json_translation_service.py).                                           *)
(*                                                                         *)
(* self._lock is held over plain assignments only, never over an await, so *)
(* no task ever waits for it.  The awaits are the read_text of             *)
(* _load_language and the write_text of add_translation, both run in an    *)
(* executor thread; write_text opens the file, which empties it, and then  *)
(* writes the text.  A dictionary is kept as the set of its keys: the keys *)
(* added here are in no other dictionary, so get_text returns the added    *)
(* text when the key is in the cached dictionary and the key itself when   *)
(* it is not.                                                              *)
(***************************************************************************)
TaTasks == 1..2
TaCalls == 3
TaKeys == {"added1", "added2"}
TaOps == {"add_translation", "get_text", "reload_translations"}

TaNotLoaded == [loaded |-> FALSE, keys |-> {}]
TaLoaded(keys) == [loaded |-> TRUE, keys |-> keys]
TaOpened == [kind |-> "empty", keys |-> {}]

TaIdle == [pc |-> "idle", op |-> "none", key |-> "none", got |-> {},
           content |-> {}]

\* where a call goes on when its _load_language has returned
TaResume(op) ==
    CASE op = "add_translation" -> "update"
      [] op = "get_text" -> "answer"
      [] op = "reload_translations" -> "return"

\* a call begins: `language not in self._translations` sends add_translation
\* and get_text to _load_language, reload_translations clears the cache
\* first and loads every language
TaStart(t) ==
    \E op \in TaOps, key \in TaKeys :
        /\ taTask[t].pc = "idle"
        /\ taGhost.calls < TaCalls
        /\ op = "reload_translations" => key = CHOOSE k \in TaKeys : TRUE
        /\ taGhost' = [taGhost EXCEPT !.calls = @ + 1]
        /\ taCache' = IF op = "reload_translations" THEN TaNotLoaded
                      ELSE taCache
        /\ taTask' = [taTask EXCEPT ![t] =
                         [TaIdle EXCEPT
                             !.op = op, !.key = key,
                             !.pc = IF op = "reload_translations"
                                       \/ ~taCache.loaded
                                    THEN "read" ELSE TaResume(op)]]
        /\ UNCHANGED <<taFile, notTA>>

\* _load_language: read_text in the executor and json.loads; a file that
\* does not decode makes _load_language return False
TaLoadRead(t) ==
    /\ taTask[t].pc = "read"
    /\ taTask' = [taTask EXCEPT ![t] =
                     IF taFile.kind = "object"
                     THEN [@ EXCEPT !.pc = "cache", !.got = taFile.keys]
                     ELSE [@ EXCEPT !.pc = TaResume(taTask[t].op)]]
    /\ UNCHANGED <<taFile, taCache, taGhost, notTA>>

\* _load_language, resumed: self._translations[language] = translations
TaLoadCache(t) ==
    /\ taTask[t].pc = "cache"
    /\ taCache' = TaLoaded(taTask[t].got)
    /\ taTask' = [taTask EXCEPT ![t].pc = TaResume(taTask[t].op)]
    /\ UNCHANGED <<taFile, taGhost, notTA>>

\* add_translation: the key is set in the cached dictionary and the
\* dictionary is serialised
TaUpdate(t) ==
    /\ taTask[t].pc = "update"
    /\ taCache' = TaLoaded(taCache.keys \cup {taTask[t].key})
    /\ taTask' = [taTask EXCEPT ![t].pc = "open",
                                ![t].content = taCache'.keys]
    /\ UNCHANGED <<taFile, taGhost, notTA>>

\* add_translation: write_text opens the file, then writes
TaOpen(t) ==
    /\ taTask[t].pc = "open"
    /\ taFile' = TaOpened
    /\ taTask' = [taTask EXCEPT ![t].pc = "fill"]
    /\ UNCHANGED <<taCache, taGhost, notTA>>

TaFill(t) ==
    /\ taTask[t].pc = "fill"
    /\ taFile' = Object(taTask[t].content)
    /\ taTask' = [taTask EXCEPT ![t].pc = "return"]
    /\ UNCHANGED <<taCache, taGhost, notTA>>

\* get_text without format arguments: the text of the cached dictionary, or
\* the key
TaAnswer(t) ==
    /\ taTask[t].pc = "answer"
    /\ taTask' = [taTask EXCEPT ![t].pc = "return",
                                ![t].got = taCache.keys]
    /\ UNCHANGED <<taFile, taCache, taGhost, notTA>>

\* the call returns; add_translation returns True
TaReturn(t) ==
    /\ taTask[t].pc = "return"
    /\ taGhost' = IF taTask[t].op = "add_translation"
                  THEN [taGhost EXCEPT !.added = @ \cup {taTask[t].key}]
                  ELSE taGhost
    /\ taTask' = [taTask EXCEPT ![t] = TaIdle]
    /\ UNCHANGED <<taFile, taCache, notTA>>

NextTA ==
    \E t \in TaTasks :
        \/ TaStart(t)
        \/ TaLoadRead(t)
        \/ TaLoadCache(t)
        \/ TaUpdate(t)
        \/ TaOpen(t)
        \/ TaFill(t)
        \/ TaAnswer(t)
        \/ TaReturn(t)

(***************************************************************************)
(* cleanup_temp_files of the downloaders                                   *)
(* (src/infrastructure/external_services/instagram_downloader_service.py,  *)
(* tiktok_downloader_service.py, composite_downloader_service.py).         *)
(*                                                                         *)
(* A path is the sequence of its names from Settings.TEMP_DIR on; the      *)
(* directory above TEMP_DIR is never empty and is left out.  The two       *)
(* adapters' cleanups hold no await, so asyncio.gather runs them one after *)
(* the other in the order of self.downloaders.                             *)
(***************************************************************************)
TEMP_DIR == <<"temp">>
MaxList == 2

\* the files a download or a caller of Settings.get_temp_path can leave:
\* directly in TEMP_DIR, in a request directory, in a post directory
ClFiles == {<<"temp", "tiktok_1.mp4">>,
            <<"temp", "tiktok_1", "tiktok_1.mp4">>,
            <<"temp", "instagram_1", "post", "1.jpg">>,
            <<"temp", "instagram_1", "post", "2.jpg">>}

parent(path) == SubSeq(path, 1, Len(path) - 1)

RECURSIVE Ancestors(_)
Ancestors(path) ==
    IF Len(path) <= 1 THEN {}
    ELSE {parent(path)} \cup Ancestors(parent(path))

\* any(directory.iterdir())
any_iterdir(fs, directory) ==
    \E entry \in fs.files \cup fs.dirs : parent(entry) = directory

unlink(fs, path) == [fs EXCEPT !.files = @ \ {path}]
rmdir(fs, directory) == [fs EXCEPT !.dirs = @ \ {directory}]

\* InstagramDownloaderService.cleanup_temp_files, one file_path
instagram_cleanup(fs, path) ==
    IF path \notin fs.files THEN fs
    ELSE LET fs1 == unlink(fs, path)
             p == parent(path)
             fs2 == rmdir(fs1, p)
             grandparent == parent(p)
         IN IF p \in fs1.dirs /\ ~any_iterdir(fs1, p)
            THEN IF /\ grandparent \in fs2.dirs
                    /\ grandparent # TEMP_DIR
                    /\ ~any_iterdir(fs2, grandparent)
                 THEN rmdir(fs2, grandparent)
                 ELSE fs2
            ELSE fs1

\* TikTokDownloaderService.cleanup_temp_files, one file_path
tiktok_cleanup(fs, path) ==
    IF path \notin fs.files THEN fs
    ELSE LET fs1 == unlink(fs, path)
             p == parent(path)
         IN IF p \in fs1.dirs /\ ~any_iterdir(fs1, p)
            THEN rmdir(fs1, p)
            ELSE fs1

\* the loop over file_paths of one adapter
RECURSIVE cleanup_loop(_, _, _)
cleanup_loop(fs, file_paths, adapter) ==
    IF file_paths = <<>> THEN fs
    ELSE cleanup_loop(IF adapter = "instagram"
                      THEN instagram_cleanup(fs, Head(file_paths))
                      ELSE tiktok_cleanup(fs, Head(file_paths)),
                      Tail(file_paths), adapter)

\* CompositeDownloaderService.cleanup_temp_files: the same list to both
\* adapters
cleanup_temp_files(fs, file_paths) ==
    cleanup_loop(cleanup_loop(fs, file_paths, "instagram"),
                 file_paths, "tiktok")

ClLists == UNION {[1..n -> ClFiles] : n \in 0..MaxList}

\* a download, or a caller of Settings.get_temp_path, leaves a file in
\* its directory (mkdir with exist_ok)
ClCreate ==
    \E path \in ClFiles :
        /\ path \notin clFs.files
        /\ TEMP_DIR \in clFs.dirs
        /\ clFs' = [files |-> clFs.files \cup {path},
                    dirs |-> clFs.dirs \cup Ancestors(path)]
        /\ clLast' = [op |-> "create", file_paths |-> <<path>>,
                      before |-> clFs]
        /\ UNCHANGED notCL

ClCleanupTempFiles ==
    \E file_paths \in ClLists :
        /\ clFs' = cleanup_temp_files(clFs, file_paths)
        /\ clLast' = [op |-> "cleanup_temp_files",
                      file_paths |-> file_paths, before |-> clFs]
        /\ UNCHANGED notCL

NextCL ==
    \/ ClCreate
    \/ ClCleanupTempFiles

(***************************************************************************)
(* Initial state and specifications                                        *)
(***************************************************************************)
InitDR ==
    /\ req = NewRequest
    /\ drNow = 0
    /\ drLast = "init"

InitUC ==
    /\ ucPc = "idle"
    /\ ucInv = 0
    /\ ucReq = "none"
    /\ ucFlags = NoFlags
    /\ ucOutcome = "none"
    /\ ucStage = "none"
    /\ ucUserMem = None
    /\ userStore \in {[exists |-> e, download_count |-> 0] : e \in BOOLEAN}
    /\ reqStore = <<>>
    /\ anaStore = <<>>
    /\ ucUsage = 0

InitRL ==
    /\ rlData = [u \in RlUsers |-> NoEntry]
    /\ rlNow = 0
    /\ rlTicks = 0
    /\ rlLast = NoQuery
    /\ rlCalls = [u \in RlUsers |-> 0]
    /\ rlFirst = [u \in RlUsers |-> 0]

\* the documents found at construction: empty, or left by an earlier run
InitRP ==
    /\ rpFile \in {[users |-> u, requests |-> r] :
                      u \in {<<>>, <<[id |-> 1, download_count |-> 0]>>},
                      r \in {<<>>, <<[id |-> "a", status |-> "pending",
                                     old |-> TRUE]>>}}
    /\ rpLock = [r \in Repos |-> None]
    /\ rpTask = [t \in Tasks |->
                    [pc |-> "idle", call |-> NoCall, data |-> <<>>,
                     overlapped |-> FALSE]]
    /\ rpSerial = rpFile

InitDL ==
    /\ dlTask = [i \in RequestNos |-> NoDownload]
    /\ dlLoader = NoLoader
    /\ dlFiles = {}

InitRG ==
    /\ rgTask = [t \in Registrations |-> NoRegistration]
    /\ rgStore = <<>>
    /\ rgWelcomes = 0
    /\ rgLastDone = "none"

InitOR ==
    /\ orData = <<>>
    /\ orNow = 0
    /\ orLast = OrCall("init", 0, <<>>, 0)

InitCF ==
    /\ cfFile = Document(<<>>)
    /\ cfLast = CfCall("init", "document", FALSE, <<>>)

InitUL ==
    /\ ulUrl = NoUrl
    /\ ulLast = UlCall("init", "None")

InitSN ==
    /\ snWaiting = 0
    /\ snHeld = 0
    /\ snGroup = 0
    /\ snLast = "none"

InitTN ==
    tnLast = TnCall("init", NoFile, <<>>, <<>>,
                    [returned |-> FALSE, raised |-> FALSE], <<>>)

InitBM ==
    /\ bmRunning = FALSE
    /\ bmStarted = FALSE
    /\ bmPc = [l \in Loops |-> "idle"]
    /\ bmSlept = [l \in Loops |-> 0]
    /\ bmWakes = [l \in Loops |-> 0]

InitBR ==
    /\ brRunning = FALSE
    /\ brStarts = 0
    /\ brPc = [g \in Starts |-> [l \in Loops |-> "none"]]
    /\ brRestart = "idle"

InitCT ==
    /\ ct = NewContainer
    /\ ctLast = CtCall("init", "none", NewContainer)

InitAD ==
    /\ adStore = <<>>
    /\ adLast = AdCall("init", NoLanguage, 0, 0, AdResult)

InitTS ==
    /\ tsFiles = [l \in SUPPORTED_LANGUAGES |-> Object({"start"})]
    /\ tsCache = NewCache
    /\ tsDefault = "en"
    /\ tsLast = TsCall("start", "start", "en", "none", NewCache,
                       TsResult("key", FALSE))

InitCX ==
    /\ cxUser = NewUser
    /\ cxLimiter = [u \in RlUsers |-> NoEntry]
    /\ cxTask = [t \in Downloaders |-> CxIdle]
    /\ cxAdmin = CxIdle
    /\ cxStarted = 0
    /\ cxSucceeded = 0
    /\ cxBanned = FALSE

InitRW ==
    /\ rwFile = JsonFile(<<>>)
    /\ rwLock = None
    /\ rwTask = [t \in RwTasks |-> RwIdle]
    /\ rwSaves = 0
    /\ rwSaved = {}

\* any document and any clock reading, no call made yet
InitRM ==
    /\ rmData \in RmDocuments
    /\ rmNow \in RmTimes
    /\ rmLast = [op |-> "none", user |-> 0, action |-> "none",
                 result |-> FALSE, before |-> rmData]

\* the document before any use
RestRM == InitRM /\ rmData = [u \in RmUsers |-> NoEntry] /\ rmNow = TickSeconds

\* the file written by _ensure_file_exists or the file an earlier run has
\* left, no call made yet
InitRF ==
    /\ rfFile \in {RfJson(RfEmptyDoc), RfJson(RfLeft)}
    /\ rfLock = None
    /\ rfTask = [t \in RfTasks |-> RfIdle]
    /\ rfGhost = [calls |-> 0, faults |-> 0, blocked |-> FALSE,
                  last |-> RfNoLast]

\* the file before any use
RestRF == InitRF /\ rfFile = RfJson(RfEmptyDoc)

\* the locale file with its default keys, nothing loaded, no call made
InitTA ==
    /\ taFile = Object({"start"})
    /\ taCache = TaNotLoaded
    /\ taTask = [t \in TaTasks |-> TaIdle]
    /\ taGhost = [calls |-> 0, added |-> {}]

\* Settings.TEMP_DIR as init_directories makes it, empty
InitCL ==
    /\ clFs = [files |-> {}, dirs |-> {TEMP_DIR}]
    /\ clLast = [op |-> "none", file_paths |-> <<>>, before |-> clFs]

Init == InitDR /\ InitUC /\ InitRL /\ InitRP /\ InitDL /\ InitRG /\
        InitOR /\ InitCF /\ InitUL /\ InitSN /\ InitTN /\ InitBM /\
        InitBR /\ InitCT /\ InitAD /\ InitTS /\ InitCX /\ InitRW /\
        InitRM /\ InitRF /\ InitTA /\ InitCL

\* One specification for each component.  The other components do not move
\* in it, so they start from one of their initial states: a registered user
\* and empty repository documents.
RestUC == InitUC /\ userStore.exists
RestRP == InitRP /\ rpFile = [r \in Repos |-> <<>>]

InitOfDR == InitDR /\ RestUC /\ InitRL /\ RestRP /\ InitDL /\ InitRG /\
            InitOR /\ InitCF /\ InitUL /\ InitSN /\ InitTN /\ InitBM /\
            InitBR /\ InitCT /\ InitAD /\ InitTS /\ InitCX /\ InitRW /\
            RestRM /\ RestRF /\ InitTA /\ InitCL
InitOfUC == InitDR /\ InitUC /\ InitRL /\ RestRP /\ InitDL /\ InitRG /\
            InitOR /\ InitCF /\ InitUL /\ InitSN /\ InitTN /\ InitBM /\
            InitBR /\ InitCT /\ InitAD /\ InitTS /\ InitCX /\ InitRW /\
            RestRM /\ RestRF /\ InitTA /\ InitCL
InitOfRL == InitDR /\ RestUC /\ InitRL /\ RestRP /\ InitDL /\ InitRG /\
            InitOR /\ InitCF /\ InitUL /\ InitSN /\ InitTN /\ InitBM /\
            InitBR /\ InitCT /\ InitAD /\ InitTS /\ InitCX /\ InitRW /\
            RestRM /\ RestRF /\ InitTA /\ InitCL
InitOfRP == InitDR /\ RestUC /\ InitRL /\ InitRP /\ InitDL /\ InitRG /\
            InitOR /\ InitCF /\ InitUL /\ InitSN /\ InitTN /\ InitBM /\
            InitBR /\ InitCT /\ InitAD /\ InitTS /\ InitCX /\ InitRW /\
            RestRM /\ RestRF /\ InitTA /\ InitCL
InitOfDL == InitDR /\ RestUC /\ InitRL /\ RestRP /\ InitDL /\ InitRG /\
            InitOR /\ InitCF /\ InitUL /\ InitSN /\ InitTN /\ InitBM /\
            InitBR /\ InitCT /\ InitAD /\ InitTS /\ InitCX /\ InitRW /\
            RestRM /\ RestRF /\ InitTA /\ InitCL
InitOfRG == InitDR /\ RestUC /\ InitRL /\ RestRP /\ InitDL /\ InitRG /\
            InitOR /\ InitCF /\ InitUL /\ InitSN /\ InitTN /\ InitBM /\
            InitBR /\ InitCT /\ InitAD /\ InitTS /\ InitCX /\ InitRW /\
            RestRM /\ RestRF /\ InitTA /\ InitCL
InitOfOR == InitDR /\ RestUC /\ InitRL /\ RestRP /\ InitDL /\ InitRG /\
            InitOR /\ InitCF /\ InitUL /\ InitSN /\ InitTN /\ InitBM /\
            InitBR /\ InitCT /\ InitAD /\ InitTS /\ InitCX /\ InitRW /\
            RestRM /\ RestRF /\ InitTA /\ InitCL
InitOfCF == InitDR /\ RestUC /\ InitRL /\ RestRP /\ InitDL /\ InitRG /\
            InitOR /\ InitCF /\ InitUL /\ InitSN /\ InitTN /\ InitBM /\
            InitBR /\ InitCT /\ InitAD /\ InitTS /\ InitCX /\ InitRW /\
            RestRM /\ RestRF /\ InitTA /\ InitCL
InitOfUL == InitDR /\ RestUC /\ InitRL /\ RestRP /\ InitDL /\ InitRG /\
            InitOR /\ InitCF /\ InitUL /\ InitSN /\ InitTN /\ InitBM /\
            InitBR /\ InitCT /\ InitAD /\ InitTS /\ InitCX /\ InitRW /\
            RestRM /\ RestRF /\ InitTA /\ InitCL
InitOfSN == InitDR /\ RestUC /\ InitRL /\ RestRP /\ InitDL /\ InitRG /\
            InitOR /\ InitCF /\ InitUL /\ InitSN /\ InitTN /\ InitBM /\
            InitBR /\ InitCT /\ InitAD /\ InitTS /\ InitCX /\ InitRW /\
            RestRM /\ RestRF /\ InitTA /\ InitCL
InitOfTN == InitDR /\ RestUC /\ InitRL /\ RestRP /\ InitDL /\ InitRG /\
            InitOR /\ InitCF /\ InitUL /\ InitSN /\ InitTN /\ InitBM /\
            InitBR /\ InitCT /\ InitAD /\ InitTS /\ InitCX /\ InitRW /\
            RestRM /\ RestRF /\ InitTA /\ InitCL
InitOfBM == InitDR /\ RestUC /\ InitRL /\ RestRP /\ InitDL /\ InitRG /\
            InitOR /\ InitCF /\ InitUL /\ InitSN /\ InitTN /\ InitBM /\
            InitBR /\ InitCT /\ InitAD /\ InitTS /\ InitCX /\ InitRW /\
            RestRM /\ RestRF /\ InitTA /\ InitCL
InitOfBR == InitDR /\ RestUC /\ InitRL /\ RestRP /\ InitDL /\ InitRG /\
            InitOR /\ InitCF /\ InitUL /\ InitSN /\ InitTN /\ InitBM /\
            InitBR /\ InitCT /\ InitAD /\ InitTS /\ InitCX /\ InitRW /\
            RestRM /\ RestRF /\ InitTA /\ InitCL
InitOfCT == InitDR /\ RestUC /\ InitRL /\ RestRP /\ InitDL /\ InitRG /\
            InitOR /\ InitCF /\ InitUL /\ InitSN /\ InitTN /\ InitBM /\
            InitBR /\ InitCT /\ InitAD /\ InitTS /\ InitCX /\ InitRW /\
            RestRM /\ RestRF /\ InitTA /\ InitCL
InitOfAD == InitDR /\ RestUC /\ InitRL /\ RestRP /\ InitDL /\ InitRG /\
            InitOR /\ InitCF /\ InitUL /\ InitSN /\ InitTN /\ InitBM /\
            InitBR /\ InitCT /\ InitAD /\ InitTS /\ InitCX /\ InitRW /\
            RestRM /\ RestRF /\ InitTA /\ InitCL
InitOfTS == InitDR /\ RestUC /\ InitRL /\ RestRP /\ InitDL /\ InitRG /\
            InitOR /\ InitCF /\ InitUL /\ InitSN /\ InitTN /\ InitBM /\
            InitBR /\ InitCT /\ InitAD /\ InitTS /\ InitCX /\ InitRW /\
            RestRM /\ RestRF /\ InitTA /\ InitCL
InitOfCX == InitDR /\ RestUC /\ InitRL /\ RestRP /\ InitDL /\ InitRG /\
            InitOR /\ InitCF /\ InitUL /\ InitSN /\ InitTN /\ InitBM /\
            InitBR /\ InitCT /\ InitAD /\ InitTS /\ InitCX /\ InitRW /\
            RestRM /\ RestRF /\ InitTA /\ InitCL
InitOfRW == InitDR /\ RestUC /\ InitRL /\ RestRP /\ InitDL /\ InitRG /\
            InitOR /\ InitCF /\ InitUL /\ InitSN /\ InitTN /\ InitBM /\
            InitBR /\ InitCT /\ InitAD /\ InitTS /\ InitCX /\ InitRW /\
            RestRM /\ RestRF /\ InitTA /\ InitCL
InitOfRM == InitDR /\ RestUC /\ InitRL /\ RestRP /\ InitDL /\ InitRG /\
            InitOR /\ InitCF /\ InitUL /\ InitSN /\ InitTN /\ InitBM /\
            InitBR /\ InitCT /\ InitAD /\ InitTS /\ InitCX /\ InitRW /\
            InitRM /\ RestRF /\ InitTA /\ InitCL
InitOfRF == InitDR /\ RestUC /\ InitRL /\ RestRP /\ InitDL /\ InitRG /\
            InitOR /\ InitCF /\ InitUL /\ InitSN /\ InitTN /\ InitBM /\
            InitBR /\ InitCT /\ InitAD /\ InitTS /\ InitCX /\ InitRW /\
            RestRM /\ InitRF /\ InitTA /\ InitCL
InitOfTA == InitDR /\ RestUC /\ InitRL /\ RestRP /\ InitDL /\ InitRG /\
            InitOR /\ InitCF /\ InitUL /\ InitSN /\ InitTN /\ InitBM /\
            InitBR /\ InitCT /\ InitAD /\ InitTS /\ InitCX /\ InitRW /\
            RestRM /\ RestRF /\ InitTA /\ InitCL
InitOfCL == InitDR /\ RestUC /\ InitRL /\ RestRP /\ InitDL /\ InitRG /\
            InitOR /\ InitCF /\ InitUL /\ InitSN /\ InitTN /\ InitBM /\
            InitBR /\ InitCT /\ InitAD /\ InitTS /\ InitCX /\ InitRW /\
            RestRM /\ RestRF /\ InitTA /\ InitCL

SpecDR == InitOfDR /\ [][NextDR]_vars
SpecUC == InitOfUC /\ [][NextUC]_vars
SpecRL == InitOfRL /\ [][NextRL]_vars
SpecRP == InitOfRP /\ [][NextRP]_vars
SpecDL == InitOfDL /\ [][NextDL]_vars
SpecRG == InitOfRG /\ [][NextRG]_vars
SpecOR == InitOfOR /\ [][NextOR]_vars
SpecCF == InitOfCF /\ [][NextCF]_vars
SpecUL == InitOfUL /\ [][NextUL]_vars
SpecSN == InitOfSN /\ [][NextSN]_vars
SpecTN == InitOfTN /\ [][NextTN]_vars
SpecBM == InitOfBM /\ [][NextBM]_vars /\ FairBM
SpecBR == InitOfBR /\ [][NextBR]_vars
SpecCT == InitOfCT /\ [][NextCT]_vars
SpecAD == InitOfAD /\ [][NextAD]_vars
SpecTS == InitOfTS /\ [][NextTS]_vars
SpecCX == InitOfCX /\ [][NextCX]_vars
SpecRW == InitOfRW /\ [][NextRW]_vars
SpecRM == InitOfRM /\ [][NextRM]_vars
SpecRF == InitOfRF /\ [][NextRF]_vars
SpecTA == InitOfTA /\ [][NextTA]_vars
SpecCL == InitOfCL /\ [][NextCL]_vars

Next == NextDR \/ NextUC \/ NextRL \/ NextRP \/ NextDL \/ NextRG \/
        NextOR \/ NextCF \/ NextUL \/ NextSN \/ NextTN \/ NextBM \/
        NextBR \/ NextCT \/ NextAD \/ NextTS \/ NextCX \/ NextRW \/
        NextRM \/ NextRF \/ NextTA \/ NextCL
Spec == Init /\ [][Next]_vars

\* the rate limiter with get_rate_limit_info and is_user_blocked as queries
SpecRQ == InitOfRL /\ [][NextRQ]_vars

\* the concurrent calls on rate_limits.json while the storage works
SpecRB == InitOfRF /\ [][NextRB]_vars

(***************************************************************************)
(* Claims about DownloadMediaUseCase.execute                               *)
(***************************************************************************)
EarlyStages == {"user", "rate", "url", "create"}

C2_AnalyticsFlagMatchesStoredStatus ==
    \A k \in 1..Len(anaStore) :
        /\ anaStore[k].success <=> StoredStatus(anaStore[k].inv) = "completed"
        /\ ~anaStore[k].success <=> StoredStatus(anaStore[k].inv) = "failed"

\* an invocation stored completed, a later step failed, and the handler wrote
\* the failure record
C2_Witness ==
    /\ ucPc = "done"
    /\ ucStage = "handler_done"
    /\ ucFlags.userUpdated
    /\ \E k \in 1..Len(anaStore) :
           anaStore[k].inv = ucInv /\ ~anaStore[k].success

\* C5: when is_rate_limited answered true, execute fails without validating
\* the URL, without creating or persisting a DownloadRequest, without calling
\* download_media and without incrementing the rate-limit usage or the
\* user's download counter.
C5_RateLimitedDoesNothing ==
    ucFlags.limited =>
        /\ ~ucFlags.validated
        /\ ~ucFlags.created
        /\ RequestsOf(ucInv) = 0
        /\ AnalyticsOf(ucInv) = 0
        /\ ~ucFlags.downloaded
        /\ ~ucFlags.incremented
        /\ ~ucFlags.userUpdated
        /\ ucReq = "none"
        /\ (ucPc = "done" => ucOutcome = "raised")

\* a rate-limited invocation has ended
C5_Witness == ucPc = "done" /\ ucFlags.limited /\ ucOutcome = "raised"

(***************************************************************************)
(* Claims about the DownloadRequest entity                                 *)
(***************************************************************************)
AllowedEdges ==
    { <<"pending", "processing">>, <<"processing", "completed">>,
      <<"processing", "failed">>, <<"processing", "cancelled">>,
      <<"failed", "pending">> }

\* C6 (as stated): under any sequence of DownloadRequest operations every
\* status change follows pending->processing, processing->completed,
\* processing->failed, processing->cancelled or failed->pending.
C6_OnlyAllowedEdges ==
    [][req'.status # req.status
          => <<req.status, req'.status>> \in AllowedEdges]_vars

\* C7 (as stated): whenever processing_time is set, started_at and
\* completed_at are set and processing_time = completed_at - started_at.
C7_ProcessingTimeIsDifference ==
    req.processing_time # None =>
        /\ req.started_at # None
        /\ req.completed_at # None
        /\ req.processing_time = req.completed_at - req.started_at

\* C8: increment_retry changes the request only when status is failed and
\* retry_count < max_retries: it then sets status pending, clears
\* error_message, started_at and completed_at and raises retry_count by one;
\* otherwise every field is unchanged; retry_count never exceeds max_retries.
C8_RetryContract ==
    /\ [](req.retry_count <= req.max_retries)
    /\ [][drLast' = "increment_retry" =>
            IF req.status = "failed" /\ req.retry_count < req.max_retries
            THEN /\ req'.status = "pending"
                 /\ req'.error_message = NoMessage
                 /\ req'.started_at = None
                 /\ req'.completed_at = None
                 /\ req'.retry_count = req.retry_count + 1
                 /\ req'.max_retries = req.max_retries
            ELSE req' = req]_vars

\* increment_retry was called on a failed request that had used up its
\* retries, and left it failed
C8_Witness ==
    /\ drLast = "increment_retry"
    /\ req.status = "failed"
    /\ req.retry_count = req.max_retries


(***************************************************************************)
(* Claims about JsonRateLimiterService, checked under SpecRL               *)
(***************************************************************************)
\* the user's increment_usage("download") calls so far were all made, on no
\* stored counter at first, within 300 s of the first of them; the user has
\* no custom download limit, is not blocked, and the 300 s are not over
InFirstWindow(u) ==
    /\ rlCalls[u] >= 1
    /\ rlData[u].counters["download"].present
    /\ rlNow < rlFirst[u] + DOWNLOAD_RATE_PERIOD
    /\ ~rlData[u].custom["download"].present
    /\ ~is_user_blocked(rlData, u, rlNow)

ActiveBlock(u) ==
    \/ rlData[u].blocked_until = Permanent
    \/ /\ rlData[u].blocked_until \notin {None, Permanent}
       /\ rlNow < rlData[u].blocked_until

\* C4: while a user has an active block (permanent, or timed and not yet
\* expired), is_rate_limited is true for every action, whatever the action's
\* counter holds, and a call of is_rate_limited made then returned true.
C4_ActiveBlockLimitsEveryAction ==
    \A u \in RlUsers :
        ActiveBlock(u) =>
            /\ \A a \in RlActions : is_rate_limited(rlData, u, a, rlNow)
            /\ (rlLast.op = "is_rate_limited" /\ rlLast.user = u)
                   => rlLast.result

\* a timed block not yet expired, a download counter whose window is over,
\* a custom limit for the other action, and the call answered true
C4_Witness ==
    /\ rlData[1].blocked_until \notin {None, Permanent}
    /\ rlNow < rlData[1].blocked_until
    /\ rlData[1].counters["download"].present
    /\ rlNow >= rlData[1].counters["download"].reset_time
    /\ rlData[1].custom["message"].present
    /\ ~rlData[1].counters["message"].present
    /\ rlLast = RlOp("is_rate_limited", 1, "download", TRUE)


(***************************************************************************)
(* Claims about the JSON repositories, checked under SpecRP                *)
(***************************************************************************)
InReadModifyWrite(t, r) ==
    rpTask[t].pc \in {"read", "write"} /\ rpTask[t].call.repo = r

SavedBy(t, r) ==
    /\ rpTask[t].pc = "done"
    /\ rpTask[t].call.repo = r
    /\ rpTask[t].call.op = "save"

\* the task has not made a call on r that removes records
RemovesNothing(t, r) ==
    \/ rpTask[t].pc = "idle"
    \/ rpTask[t].call.repo # r
    \/ rpTask[t].call.op \in {"save", "update_status"}

\* C9: concurrent calls of save, delete, update_status and
\* delete_old_requests on one repository never overlap their
\* read-modify-write sequences; whenever no call is inside one, the stored
\* document is what the calls made so far give when applied one at a time
\* in the order in which they took the lock; and two concurrent saves of
\* different ids are both present afterwards.
C9_MutatorsAreSerialized ==
    \A r \in Repos :
        /\ Cardinality({t \in Tasks : InReadModifyWrite(t, r)}) <= 1
        /\ rpLock[r] = None => rpFile[r] = rpSerial[r]
        /\ \A t1, t2 \in Tasks :
               (/\ t1 # t2
                /\ SavedBy(t1, r) /\ SavedBy(t2, r)
                /\ rpTask[t1].call.rec.id # rpTask[t2].call.rec.id
                /\ \A u \in Tasks \ {t1, t2} : RemovesNothing(u, r))
               => /\ HasId(rpFile[r], rpTask[t1].call.rec.id)
                  /\ HasId(rpFile[r], rpTask[t2].call.rec.id)

\* two saves of different ids that were in progress at the same time
C9_Witness ==
    /\ SavedBy(1, "requests") /\ SavedBy(2, "requests")
    /\ rpTask[1].overlapped /\ rpTask[2].overlapped
    /\ rpTask[1].call.rec.id = "a" /\ rpTask[2].call.rec.id = "b"
    /\ HasId(rpFile["requests"], "a") /\ HasId(rpFile["requests"], "b")
    /\ rpFile["requests"] = rpSerial["requests"]


(***************************************************************************)
(* Claims about the platform downloaders, checked under SpecDL             *)
(***************************************************************************)
OwnDirectory(i) == temp_dir(dlTask[i].platform, i)

\* C10: for concurrent download requests with different ids, every file a
\* download writes is inside that request's own temp subdirectory
\* (instagram_<id> or tiktok_<id>), and the file list returned for a request
\* has only paths under its own subdirectory.
C10_FilesOnlyInOwnSubdirectory ==
    /\ \A f \in dlFiles : f.dir = OwnDirectory(f.owner)
    /\ \A i \in RequestNos :
           \A f \in dlTask[i].returned : f.dir = OwnDirectory(i)


(***************************************************************************)
(* Claims about ManageUserUseCase.register_user, checked under SpecRG      *)
(***************************************************************************)
RgQuiet == \A t \in Registrations : rgTask[t].pc \in {"idle", "done"}

\* C11: registering the same user id more than once, one call after another
\* or overlapping, leaves exactly one stored record for the id with the
\* display fields of the call that completed last, and the welcome message
\* has been sent exactly once.  Stated for calls none of which raised.
C11_OneRecordLastFieldsOneWelcome ==
    (/\ RgQuiet
     /\ \A t \in Registrations : rgTask[t].outcome # "raised"
     /\ \E t \in Registrations : rgTask[t].outcome = "returned")
        => /\ Cardinality({k \in 1..Len(rgStore) :
                              rgStore[k].id = RegUserId}) = 1
           /\ \A k \in 1..Len(rgStore) : rgStore[k].first_name = rgLastDone
           /\ rgWelcomes = 1


(***************************************************************************)
(* Claims about delete_old_requests, checked under SpecOR                  *)
(***************************************************************************)
\* the claim's rows to remove: created before the cutoff, and neither
\* pending nor processing
OrRemovable(r, cutoff) ==
    /\ r.created_at # None
    /\ r.created_at < cutoff
    /\ r.status \notin {"pending", "processing"}

\* C12: delete_old_requests(days) removes exactly the requests created
\* before the cutoff whose status is neither pending nor processing, keeps
\* every other request unchanged and in place, and returns the number of
\* rows removed.
C12_DeleteOldRemovesExactlyOldFinished ==
    orLast.op = "delete_old_requests" =>
        LET cutoff == orNow - orLast.days IN
        /\ orData = SelectSeq(orLast.before,
                              LAMBDA r : ~OrRemovable(r, cutoff))
        /\ orLast.count = Len(orLast.before) - Len(orData)
        /\ orLast.count =
               Cardinality({k \in 1..Len(orLast.before) :
                               OrRemovable(orLast.before[k], cutoff)})

\* a pass that removed a row and kept an old pending one and a row created
\* exactly at the cutoff
C12_Witness ==
    /\ orLast.op = "delete_old_requests"
    /\ orLast.count = 1
    /\ Len(orLast.before) = 2
    /\ \E k \in 1..Len(orData) :
           /\ orData[k].created_at # None
           /\ orData[k].created_at <= orNow - orLast.days


(***************************************************************************)
(* Claims about a damaged store file, checked under SpecCF                 *)
(***************************************************************************)
\* C13: a read of a store file whose content does not decode returns an
\* empty collection without raising and leaves a valid empty document; a
\* save never raises and its row is in the valid document it leaves.
C13_UndecodableFileReadsEmptyAndResets ==
    /\ (cfLast.op = "get_all" /\ cfLast.found # "document") =>
           /\ ~cfLast.raised
           /\ cfLast.data = <<>>
           /\ cfFile = Document(<<>>)
    /\ cfLast.op = "save" =>
           /\ ~cfLast.raised
           /\ cfFile.kind = "document"
           /\ \E k \in 1..Len(cfFile.rows) : cfFile.rows[k] = cfLast.data[1]


(***************************************************************************)
(* Claims about URL dispatch, checked under SpecUL                         *)
(***************************************************************************)
\* C14: for a URL no adapter handles, can_handle returns false and each of
\* extract_media_info, download_media, get_media_metadata and validate_url
\* fails with UnsupportedUrlError.
C14_UnhandledUrlFailsEveryDelegate ==
    (ulUrl # NoUrl /\ ~instagram_can_handle(ulUrl) /\ ~tiktok_can_handle(ulUrl))
        => /\ ulLast.op = "can_handle" => ulLast.result = "False"
           /\ ulLast.op \in {"extract_media_info", "download_media",
                             "get_media_metadata", "validate_url"}
                  => ulLast.result = "UnsupportedUrlError"

\* C15: the platform a DownloadRequest infers from its URL is instagram
\* exactly when the Instagram adapter is selected for that URL, tiktok
\* exactly when the TikTok adapter is, and absent exactly when no adapter
\* handles the URL.
C15_InferredPlatformIsSelectedAdapter ==
    ulLast.op = "DownloadRequest" =>
        /\ ulLast.result = "instagram" <=> instagram_can_handle(ulUrl)
        /\ ulLast.result = "tiktok" <=>
               (~instagram_can_handle(ulUrl) /\ tiktok_can_handle(ulUrl))
        /\ ulLast.result = "None" <=>
               (~instagram_can_handle(ulUrl) /\ ~tiktok_can_handle(ulUrl))


(***************************************************************************)
(* Claims about elapsed windows and blocks, checked under SpecRQ           *)
(***************************************************************************)
\* the stored reset time of the user's download counter has passed
DownloadWindowOver(u) ==
    /\ rlData[u].counters["download"].present
    /\ rlNow >= rlData[u].counters["download"].reset_time

\* what C16 asserts of a user, for is_rate_limited and get_rate_limit_info
\* and for the call made last
WindowOverReadsAsFresh(u) ==
    LET info == get_rate_limit_info(rlData, u, "download", rlNow) IN
    /\ ~is_rate_limited(rlData, u, "download", rlNow)
    /\ info.used = 0
    /\ info.remaining = info.total_limit
    /\ ~rlData[u].custom["download"].present
           => info.remaining = DOWNLOAD_RATE_LIMIT
    /\ (rlLast.user = u /\ rlLast.action = "download") =>
           /\ rlLast.op = "is_rate_limited" => rlLast.result = FALSE
           /\ rlLast.op = "get_rate_limit_info" =>
                  /\ rlLast.result.used = 0
                  /\ rlLast.result.remaining = rlLast.result.total_limit

\* C16 as stated: once the stored reset time of a user's download counter
\* has passed, whatever used value is stored, is_rate_limited returns false
\* and get_rate_limit_info reports used = 0 and remaining = total_limit.
C16_WindowOverReadsAsFresh ==
    \A u \in RlUsers : DownloadWindowOver(u) => WindowOverReadsAsFresh(u)

\* C16 amended: the same for a user who has no active block.
C16_WindowOverReadsAsFreshUnlessBlocked ==
    \A u \in RlUsers :
        (DownloadWindowOver(u) /\ ~ActiveBlock(u)) => WindowOverReadsAsFresh(u)

\* the window is over with the limit used up, and get_rate_limit_info was
\* asked
C16_Witness ==
    \E u \in RlUsers :
        /\ DownloadWindowOver(u)
        /\ ~ActiveBlock(u)
        /\ rlData[u].counters["download"].used >= DOWNLOAD_RATE_LIMIT
        /\ rlLast.op = "get_rate_limit_info"
        /\ rlLast.user = u
        /\ rlLast.action = "download"

\* the user has a timed block stored
TimedBlock(u) == rlData[u].blocked_until \notin {None, Permanent}

\* C17: block_user(user, h) stores the time of the call plus h hours as the
\* expiry; while that expiry is stored (no unblock_user and no removal by
\* cleanup_expired_limits), is_user_blocked is true at every time before it
\* and false at every time from it on.
C17_TimedBlockEndsAtExpiry ==
    \A u \in RlUsers :
        /\ (rlLast.op = "block_user" /\ rlLast.user = u
                /\ rlLast.result # None)
               => rlData[u].blocked_until
                      = rlNow + rlLast.result * SecondsPerHour
        /\ TimedBlock(u) =>
               /\ is_user_blocked(rlData, u, rlNow)
                      <=> rlNow < rlData[u].blocked_until
               /\ (rlLast.op = "is_user_blocked" /\ rlLast.user = u)
                      => (rlLast.result <=> rlNow < rlData[u].blocked_until)

\* is_user_blocked was asked at the expiry of a timed block
C17_Witness ==
    \E u \in RlUsers :
        /\ TimedBlock(u)
        /\ rlNow = rlData[u].blocked_until
        /\ rlLast.op = "is_user_blocked"
        /\ rlLast.user = u
        /\ rlLast.result = FALSE


(***************************************************************************)
(* Claims about TelegramNotificationService, checked under SpecSN, SpecTN  *)
(***************************************************************************)
\* C18: at every moment at most 30 send operations issued through the
\* service (message, photo, video, document and media-group sends) are in
\* flight against the chat client.
C18_AtMostThirtySendsInFlight ==
    SnInFlight <= SendLimit


\* the boolean delivery operations
TnDeliveries ==
    {"send_message", "edit_message", "delete_message", "send_typing_action",
     "send_upload_action", "send_document", "send_photo", "send_video",
     "send_media", "send_media_group"}

\* C19: a delivery operation never raises, returns true when its client
\* call succeeded and false when it failed; send_media returns false
\* without a client call for a missing file or one over 50 MB; the map of
\* broadcast_message has exactly the input user ids as keys, each with the
\* outcome of a send made to that user.
C19_DeliveriesReturnOutcomeNeverRaise ==
    /\ ~tnLast.raised
    /\ (tnLast.op \in TnDeliveries /\ Len(tnLast.calls) = 1)
           => tnLast.returned = tnLast.calls[1].ok
    /\ (tnLast.op \in TnDeliveries /\ Len(tnLast.calls) = 0)
           => tnLast.returned = FALSE
    /\ (tnLast.op = "send_media"
            /\ (~tnLast.file.exists \/ tnLast.file.size > 52428800))
           => tnLast.returned = FALSE /\ tnLast.calls = <<>>
    /\ tnLast.op = "broadcast_message" =>
           /\ DOMAIN tnLast.results
                  = {tnLast.user_ids[k] : k \in 1..Len(tnLast.user_ids)}
           /\ Len(tnLast.calls) = Len(tnLast.user_ids)
           /\ \A id \in DOMAIN tnLast.results :
                  \E k \in 1..Len(tnLast.user_ids) :
                      /\ tnLast.user_ids[k] = id
                      /\ tnLast.results[id] = tnLast.calls[k].ok

\* a broadcast to two users of which one send failed
C19_Witness ==
    /\ tnLast.op = "broadcast_message"
    /\ Len(tnLast.user_ids) = 2
    /\ tnLast.user_ids[1] # tnLast.user_ids[2]
    /\ ~tnLast.calls[1].ok
    /\ tnLast.calls[2].ok
    /\ ~tnLast.results[tnLast.user_ids[1]]


(***************************************************************************)
(* Claims about the background loops, checked under SpecBM                 *)
(***************************************************************************)
\* C20: a loop whose pass raised does not terminate while the running flag
\* stays set: it waits 5 minutes and continues, so a further pass is
\* eventually attempted (or the flag has been cleared).
C20_FailedPassIsFollowedByAnotherPass ==
    \A l \in Loops :
        /\ [](bmPc[l] = "backoff" => <>(bmPc[l] = "pass" \/ ~bmRunning))
        /\ []((bmPc[l] = "exited") => ~bmRunning)
        /\ []((bmPc[l] = "pass" /\ bmSlept[l] # Period(l))
                  => bmSlept[l] = RetryDelay + Period(l))

\* a pass attempted after a failed one and its 5 minutes, the flag still set
C20_Witness ==
    \E l \in Loops :
        /\ bmRunning
        /\ bmPc[l] = "pass"
        /\ bmSlept[l] = RetryDelay + Period(l)


\* C21, second half: once stop() has cleared the running flag, with no
\* further start(), each loop terminates.
C21_StoppedLoopExits ==
    \A l \in Loops : [](bmStarted /\ ~bmRunning => <>(bmPc[l] = "exited"))

\* C21: after stop() has cleared the running flag, with no further start(),
\* each loop wakes from a sleep at most once more before it terminates
\* (bmWakes counts the sleeps that end while the flag is cleared; that the
\* loop terminates is C21_StoppedLoopExits).
C21_StoppedLoopWakesAtMostOnce == \A l \in Loops : bmWakes[l] <= 1


(***************************************************************************)
(* Claims about start, stop and restart, checked under SpecBR              *)
(***************************************************************************)
\* the tasks of loop l that are alive
AliveLoops(l) == {g \in Starts : brPc[g][l] \notin {"none", "exited"}}

\* C30: at every moment at most one request-cleanup loop and at most one
\* rate-limit-cleanup loop are alive, after any sequence of start, stop and
\* restart calls.
C30_AtMostOneLoopOfEachKind ==
    \A l \in Loops : Cardinality(AliveLoops(l)) <= 1


(***************************************************************************)
(* Claims about the Container, checked under SpecCT                        *)
(***************************************************************************)
\* C22: after initialize and set_notification_service(s), the container's
\* notification service and the notification_service of the download,
\* manage-user and admin use cases are all s, and the registered use cases
\* are the objects that were there before the call.
C22_NotificationServicePatchedInPlace ==
    /\ (ctLast.op = "set_notification_service" /\ ctLast.before.initialized)
           => /\ ct.services["notification_service"] = ctLast.arg
              /\ \A u \in Patched : ct.note[u] = ctLast.arg
              /\ \A k \in Keys \ {"notification_service"} :
                     ct.services[k] = ctLast.before.services[k]
    /\ ct.initialized =>
           \A u \in Patched : ct.note[u] = ct.services["notification_service"]

\* a second notification service was installed after initialize
C22_Witness ==
    /\ ctLast.op = "set_notification_service"
    /\ ctLast.before.initialized
    /\ ctLast.before.services["notification_service"] \in Notifiers
    /\ ctLast.before.services["notification_service"] # ctLast.arg

\* C23: initialize called again after it has completed changes nothing:
\* every key holds the same object as before, and an installed notification
\* service stays in the container and in the use cases.
C23_InitializeAgainChangesNothing ==
    (ctLast.op = "initialize" /\ ctLast.before.initialized)
        => /\ ct.initialized
           /\ ct.services = ctLast.before.services
           /\ ct.note = ctLast.before.note

\* initialize was called again with a notification service installed
C23_Witness ==
    /\ ctLast.op = "initialize"
    /\ ctLast.before.initialized
    /\ ct.services["notification_service"] \in Notifiers
    /\ \A u \in Patched : ct.note[u] \in Notifiers


(***************************************************************************)
(* Claims about the AdminUseCase, checked under SpecAD                     *)
(***************************************************************************)
\* the users a broadcast with this target is meant for
Audience(target) ==
    Select(adStore,
           {u \in AdUsers : /\ ~u.is_banned
                            /\ target # NoLanguage => u.language = target})

\* C24: broadcast_message hands the notification port exactly the users
\* who are not banned, of the target language when a filter is given and of
\* the whole store otherwise, and total_users is the size of that audience.
C24_BroadcastAudienceIsUnbannedTargets ==
    adLast.op = "broadcast_message"
        => /\ adLast.result.called
           /\ adLast.result.handed = Audience(adLast.target)
           /\ adLast.result.total = Len(Audience(adLast.target))

\* the part of C24 that the code keeps: no banned user is handed over
C24_NoBannedUserHanded ==
    \A i \in 1..Len(adLast.result.handed) : ~adLast.result.handed[i].is_banned

\* C26: get_user_list(page k, limit L) on N users reports
\* pages = ceil(N / L); for 1 <= k <= pages it returns the users at
\* positions (k-1)L .. min(kL, N) - 1 in store order, and none for a page
\* beyond the last.
C26_PagesPartitionTheUsers ==
    (adLast.op = "get_user_list" /\ adLast.page >= 1)
        => LET N == Len(adStore)
               L == adLast.limit
               k == adLast.page
               r == adLast.result
               last == IF k * L < N THEN k * L ELSE N
           IN  /\ r.pages * L >= N
               /\ (r.pages - 1) * L < N \/ r.pages = 0
               /\ r.total = N
               /\ k <= r.pages
                     => r.users = [i \in 1..(last - (k - 1) * L) |->
                                      adStore[(k - 1) * L + i]]
               /\ k > r.pages => r.users = <<>>

\* the last page of three users read two at a time holds one user
C26_Witness ==
    /\ adLast.op = "get_user_list"
    /\ Len(adStore) = 3
    /\ adLast.limit = 2
    /\ adLast.page = 2
    /\ Len(adLast.result.users) = 1


(***************************************************************************)
(* Claims about the JsonTranslationService, checked under SpecTS           *)
(***************************************************************************)
\* the language a call is served in: the default for an unsupported code
ServedLanguage ==
    IF tsLast.language \in SUPPORTED_LANGUAGES THEN tsLast.language
    ELSE tsDefault

\* the dictionary of a language as the call found it: the loaded document,
\* or the file when nothing was loaded
DictionaryOf(l) ==
    IF tsLast.before[l].kind = "unloaded" THEN FileOf(tsFiles, l)
    ELSE tsLast.before[l]

C25_GetTextNeverRaises == ~tsLast.result.raised

CxQuiet ==
    /\ \A t \in Downloaders : cxTask[t].pc = "idle"
    /\ cxAdmin.pc = "idle"

C28_BanSurvives == (CxQuiet /\ cxBanned) => cxUser.is_banned


(***************************************************************************)
(* Claims about queries beside a locked save, checked under SpecRW         *)
(***************************************************************************)
RwWriting(t) == rwTask[t].pc \in {"open", "fill"}

\* C29, first half: a read-only query never writes the store file while
\* another task holds the repository lock.
C29_QueryNeverWritesUnderLock ==
    \A t \in Readers : RwWriting(t) => rwLock = None

\* C29, second half: the record of a save that has returned is in the
\* file whenever no write is under way.
C29_ReturnedSaveStays ==
    (\A t \in RwTasks : ~RwWriting(t))
        => /\ rwFile.kind = "json"
           /\ \A id \in rwSaved : HasId(rwFile.data, id)

\* C29: a read-only query never writes the store file while another task
\* holds the repository lock, and the record of a save that has returned
\* is in the file whenever no write is under way.
C29_QueriesLeaveSavesAlone ==
    /\ C29_QueryNeverWritesUnderLock
    /\ C29_ReturnedSaveStays


Observed(data, user, action, now) ==
    LET info == get_rate_limit_info(data, user, action, now)
    IN [limited |-> is_rate_limited(data, user, action, now),
        blocked |-> is_user_blocked(data, user, now),
        used |-> info.used,
        remaining |-> info.remaining,
        total_limit |-> info.total_limit]

\* C33: cleanup_expired_limits is observationally transparent: for every
\* user and action, is_rate_limited, is_user_blocked and the used,
\* remaining and total_limit of get_rate_limit_info are the same right
\* after the cleanup as right before it.
C33_CleanupIsTransparent ==
    [][rmLast'.op = "cleanup_expired_limits" =>
          \A u \in RmUsers, a \in RlActions :
              Observed(rmData', u, a, rmNow) = Observed(rmData, u, a, rmNow)]_vars

\* a cleanup has deleted a counter, a block and an entry or more
C33_Witness ==
    /\ rmLast.op = "cleanup_expired_limits"
    /\ rmLast.result >= 3

\* what a cleanup pass may delete from one entry: counters whose reset time
\* has come, a timed block whose end has come
ExpiredCounter(user_data, action, now) ==
    /\ user_data.counters[action].present
    /\ now >= user_data.counters[action].reset_time

ExpiredBlock(user_data, now) ==
    /\ user_data.blocked_until \notin {None, Permanent}
    /\ now >= user_data.blocked_until

\* an entry that is left empty, or with an empty custom-limits map only,
\* once its expired counters and block are gone
LeftEmpty(user_data, now) ==
    /\ user_data.exists
    /\ \A a \in RlActions :
          /\ user_data.counters[a].present => ExpiredCounter(user_data, a, now)
          /\ ~user_data.custom[a].present
    /\ user_data.blocked_until # None => ExpiredBlock(user_data, now)

\* the deletions between two documents
RemovedCounters(before, after) ==
    {<<u, a>> \in RmUsers \X RlActions :
        before[u].counters[a].present /\ ~after[u].counters[a].present}

RemovedBlocks(before, after) ==
    {u \in RmUsers :
        before[u].blocked_until # None /\ after[u].blocked_until = None}

RemovedEntries(before, after) ==
    {u \in RmUsers : before[u].exists /\ ~after[u].exists}

\* C35: cleanup_expired_limits removes exactly the expired counters, the
\* expired timed blocks and the entries left empty or with only an empty
\* custom-limits map; a permanent block, an unexpired counter or block and
\* a non-empty custom-limits map stay as they are; the number it returns is
\* the number of items it removed.
C35_CleanupRemovesExactlyTheExpired ==
    [][rmLast'.op = "cleanup_expired_limits" =>
          /\ RemovedCounters(rmData, rmData') =
                 {<<u, a>> \in RmUsers \X RlActions :
                     ExpiredCounter(rmData[u], a, rmNow)}
          /\ RemovedBlocks(rmData, rmData') =
                 {u \in RmUsers : ExpiredBlock(rmData[u], rmNow)}
          /\ RemovedEntries(rmData, rmData') =
                 {u \in RmUsers : LeftEmpty(rmData[u], rmNow)}
          /\ \A u \in RmUsers :
                /\ \A a \in RlActions :
                      ~ExpiredCounter(rmData[u], a, rmNow) =>
                          rmData'[u].counters[a] = rmData[u].counters[a]
                /\ ~ExpiredBlock(rmData[u], rmNow) =>
                       rmData'[u].blocked_until = rmData[u].blocked_until
                /\ rmData'[u].custom = rmData[u].custom
          /\ rmLast'.result =
                 Cardinality(RemovedCounters(rmData, rmData'))
                 + Cardinality(RemovedBlocks(rmData, rmData'))
                 + Cardinality(RemovedEntries(rmData, rmData'))]_vars

\* a cleanup has deleted something of a user and has left the same user's
\* permanent block, live counter and custom limit
C35_Witness ==
    /\ rmLast.op = "cleanup_expired_limits"
    /\ rmLast.result >= 1
    /\ \E u \in RmUsers :
          /\ ~rmData[u].counters["message"].present
          /\ rmData[u].counters["download"].present
          /\ rmData[u].custom["download"].present
          /\ rmData[u].blocked_until = Permanent
          /\ rmLast.result >= 2

\* C36: reset_user_limits(user) removes every action counter of that user,
\* leaves the user's custom limits and block marker as they were, leaves
\* every other user's entry unchanged, and changes nothing for a user who
\* has no entry.  (The custom limits are the limits stored per action: an
\* entry without a custom_limits key gets an empty one.)
C36_ResetRemovesCountersOnly ==
    rmLast.op = "reset_user_limits" =>
        LET user == rmLast.user
            before == rmLast.before
        IN /\ \A a \in RlActions : ~rmData[user].counters[a].present
           /\ rmData[user].custom = before[user].custom
           /\ rmData[user].blocked_until = before[user].blocked_until
           /\ \A other \in RmUsers \ {user} : rmData[other] = before[other]
           /\ ~before[user].exists => rmData = before

\* a reset has removed a counter of a user with a custom limit and a block,
\* next to another user with a counter
C36_Witness ==
    /\ rmLast.op = "reset_user_limits"
    /\ rmLast.before[rmLast.user].counters["download"].present
    /\ rmLast.before[rmLast.user].custom["download"].present
    /\ rmLast.before[rmLast.user].blocked_until # None
    /\ \E other \in RmUsers \ {rmLast.user} :
          rmData[other].counters["download"].present

RmQueries == {"is_rate_limited", "is_user_blocked", "get_rate_limit_info",
              "get_time_until_reset"}

\* a window reset has been stored: a counter that was there has a new reset
\* time
WindowReset(before, after) ==
    \E u \in RmUsers, a \in RlActions :
        /\ before[u].counters[a].present
        /\ after[u].counters[a].present
        /\ after[u].counters[a].reset_time # before[u].counters[a].reset_time

\* C37: the queries get_rate_limit_info, get_time_until_reset,
\* is_rate_limited and is_user_blocked leave a stored document that decodes
\* unchanged, also when they find the stored window expired; of all the
\* operations only increment_usage stores a window reset.
C37_QueriesStoreNothing ==
    /\ rmLast.op \in RmQueries => rmData = rmLast.before
    /\ WindowReset(rmLast.before, rmData) => rmLast.op = "increment_usage"

\* get_rate_limit_info has reported an expired window as reset and the
\* stored counter is still the expired one
C37_Witness ==
    /\ rmLast.op = "get_rate_limit_info"
    /\ rmLast.result.used = 0
    /\ ExpiredCounter(rmData[rmLast.user], rmLast.action, rmNow)

\* increment_usage has stored a window reset
C37_ResetStored ==
    /\ rmLast.op = "increment_usage"
    /\ WindowReset(rmLast.before, rmData)

\* the counter increment_usage found, the counter it stored and the period
\* of the limit in force
Found == rmLast.before[rmLast.user].counters[rmLast.action]
Stored == rmData[rmLast.user].counters[rmLast.action]
PeriodInForce ==
    limit_config(rmLast.before[rmLast.user], rmLast.action).period_seconds

\* C38: increment_usage raises used by exactly 1 relative to the effective
\* window: on first use it stores used = 1 and a reset time one period
\* after the call; on a live window it stores used + 1 and the same reset
\* time; on an expired window it stores used = 1 and a new reset time one
\* period after the call that lies in the future, so that the window it
\* opens is never already expired.
C38_IncrementOpensLiveWindow ==
    rmLast.op = "increment_usage" =>
        /\ ~Found.present =>
              /\ Stored.used = 1
              /\ Stored.reset_time = rmNow + PeriodInForce
        /\ Found.present /\ rmNow < Found.reset_time =>
              /\ Stored.used = Found.used + 1
              /\ Stored.reset_time = Found.reset_time
        /\ Found.present /\ rmNow >= Found.reset_time =>
              /\ Stored.used = 1
              /\ Stored.reset_time = rmNow + PeriodInForce
              /\ Stored.reset_time > rmNow

\* the arithmetic alone: the same without "lies in the future"
C38_IncrementArithmetic ==
    rmLast.op = "increment_usage" =>
        /\ Found.present /\ rmNow < Found.reset_time =>
              /\ Stored.used = Found.used + 1
              /\ Stored.reset_time = Found.reset_time
        /\ ~(Found.present /\ rmNow < Found.reset_time) =>
              /\ Stored.used = 1
              /\ Stored.reset_time = rmNow + PeriodInForce

(* Claims about concurrent calls of JsonRateLimiterService, checked under  *)
(* SpecRB (the storage works) and SpecRF (the storage may fail)            *)

RfQuiet == \A t \in RfTasks : ~RfBusy(t)

\* C32: after block_user(user) without a duration has returned True,
\* is_user_blocked(user) is true in every later state until unblock_user
\* is called, whatever other calls of the limiter run in between: whenever
\* the block stands and no call is under way, the stored document answers
\* is_user_blocked with True.
C32_BlockStandsUntilUnblock ==
    rfGhost.blocked /\ RfQuiet =>
        /\ rfFile.kind = "json"
        /\ is_user_blocked(rfFile.data, RfUser, RfNow)

\* no single operation other than unblock_user ends a permanent block
\* (checked under SpecRM): the block of C32 is lost to the interleaving
\* only
C32_OnlyUnblockEndsPermanent ==
    \A u \in RmUsers :
        /\ rmLast.before[u].blocked_until = Permanent
        /\ ~(rmLast.op = "unblock_user" /\ rmLast.user = u)
        => is_user_blocked(rmData, u, rmNow)

RfNamed == {"is_rate_limited", "is_user_blocked", "increment_usage",
            "block_user", "unblock_user", "reset_user_limits",
            "set_custom_limit"}

\* the last call has returned after a read_text or write_text of its own
\* raised, and has met no other call
RfFailedAlone ==
    /\ rfGhost.last.op \in RfNamed
    /\ rfGhost.last.faulted
    /\ ~rfGhost.last.overlapped

\* C39: when reading or writing the store fails, is_rate_limited and
\* is_user_blocked return False, increment_usage, block_user, unblock_user,
\* reset_user_limits and set_custom_limit return False, and none of them
\* changes the stored document (none raises: every call returns a value).
C39_FailedCallChangesNothing ==
    RfFailedAlone =>
        /\ rfGhost.last.res = FALSE
        /\ rfFile = rfGhost.last.before

\* the first half alone, the call returns False: is_rate_limited answers
\* True when the read of its is_user_blocked has raised and its own read
\* has found the counter used up
C39_FailedCallReturnsFalse ==
    RfFailedAlone => rfGhost.last.res = FALSE

(***************************************************************************)
(* Claims about JsonTranslationService.add_translation, checked under      *)
(* SpecTA                                                                  *)
(***************************************************************************)
TaQuiet == \A t \in TaTasks : taTask[t].pc = "idle"

\* the dictionary the next get_text of the language answers from
TaServed == IF taCache.loaded THEN taCache.keys
            ELSE IF taFile.kind = "object" THEN taFile.keys ELSE {}

\* C34: after add_translation(key, language, text) has returned True for a
\* supported language, every later get_text(key, language) without format
\* arguments returns text and the language's file contains the key, also
\* when the add overlapped a first load of the language, another
\* add_translation or a reload_translations: whenever no call is under
\* way, every added key is in the file and in the dictionary get_text
\* answers from.
C34_AddedTranslationStays ==
    TaQuiet =>
        \A key \in taGhost.added :
            /\ taFile.kind = "object" /\ key \in taFile.keys
            /\ key \in TaServed

(***************************************************************************)
(* Claims about cleanup_temp_files, checked under SpecCL                   *)
(***************************************************************************)
\* C40: whatever list of file paths cleanup_temp_files is given through
\* the downloader port, the shared temp root is never removed, also when
\* the removed file was the last entry directly inside the temp root or
\* inside its only subdirectory; only directories strictly below the temp
\* root that have become empty are removed.
C40_TempRootIsNeverRemoved ==
    clLast.op = "cleanup_temp_files" =>
        /\ TEMP_DIR \in clFs.dirs
        /\ \A d \in clLast.before.dirs \ clFs.dirs :
              /\ d # TEMP_DIR
              /\ ~any_iterdir(clFs, d)

\* the second half alone: every removed directory has become empty
C40_RemovedDirectoriesAreEmpty ==
    clLast.op = "cleanup_temp_files" =>
        \A d \in clLast.before.dirs \ clFs.dirs : ~any_iterdir(clFs, d)

\* the temp root stays when the last file of its only subdirectory goes
C40_OnlySubdirectoryCase ==
    /\ clLast.op = "cleanup_temp_files"
    /\ clLast.before.files = {<<"temp", "tiktok_1", "tiktok_1.mp4">>}
    /\ clFs = [files |-> {}, dirs |-> {TEMP_DIR}]

====
